---------------------------- MODULE Spec2Model ----------------------------
(***************************************************************************)
(* A model of the video downloader's acquisition orchestration:           *)
(*   src/src/downloader.py    VideoDownloader (per-URL fallback state      *)
(*                            machine, batch controller, titles.txt)       *)
(*   src/src/file_manager.py  FileManager (sweep, skip/resume decision)    *)
(*   src/src/playwright_capture.py  the browser engine's entry point       *)
(*                                                                         *)
(* Strings are sequences of one-character strings, so that the string      *)
(* operations of the code (strip, find, startswith, endswith, split,       *)
(* pathlib suffix handling, urlparse) are computed, not assumed.           *)
(*                                                                         *)
(* The orchestrator's methods are modelled on an existing VideoDownloader  *)
(* object whose fields hold what __init__ assigns (domain_stats = {}).     *)
(***************************************************************************)
EXTENDS Integers, Sequences, FiniteSets, TLC

(***************************************************************************)
(* Bounds of the model.                                                    *)
(***************************************************************************)
\* Longest URL list handed to download_videos.
MaxUrls == 2

\* Largest number of files in the output tree before the run.
MaxInitFiles == 2

\* Largest number of entries in the directory the file manager is tried on.
MaxDirFiles == 4

(***************************************************************************)
(* Strings.                                                                *)
(***************************************************************************)
\* Python's None: a value that is no string of the model.
None == <<"None">>

\* s[i:] of Python, with i counted from 1.
Drop(s, i) == SubSeq(s, i, Len(s))

\* s[:n] of Python.
Take(s, n) == SubSeq(s, 1, n)

\* str.startswith
StartsWith(s, p) == Len(p) <= Len(s) /\ Take(s, Len(p)) = p

\* str.endswith
EndsWith(s, p) == Len(p) <= Len(s) /\ Drop(s, Len(s) - Len(p) + 1) = p

\* str.find: the first position (from 1) at which p occurs in s, 0 when none.
Find(s, p) ==
    LET hits == {i \in 1..(Len(s) - Len(p) + 1) : SubSeq(s, i, i + Len(p) - 1) = p}
    IN  IF hits = {} THEN 0 ELSE CHOOSE i \in hits : \A j \in hits : i <= j

\* str.rfind: the last position at which p occurs in s, 0 when none.
RFind(s, p) ==
    LET hits == {i \in 1..(Len(s) - Len(p) + 1) : SubSeq(s, i, i + Len(p) - 1) = p}
    IN  IF hits = {} THEN 0 ELSE CHOOSE i \in hits : \A j \in hits : i >= j

\* The "in" operator on strings.
Contains(s, p) == Find(s, p) # 0

\* str.strip (whitespace is the blank here).
Strip(s) ==
    LET keep == {i \in 1..Len(s) : s[i] # " "}
    IN  IF keep = {} THEN <<>>
        ELSE SubSeq(s, CHOOSE i \in keep : \A j \in keep : i <= j,
                       CHOOSE i \in keep : \A j \in keep : i >= j)

\* The characters urlsplit accepts in a scheme.
SchemeChars == {"h", "t", "p", "s", "a", "b", "v", "f"}

\* urlparse(url).scheme: the text before the first ":" when it is a
\* non-empty run of scheme characters, else "".
UrlScheme(url) ==
    LET i == Find(url, <<":">>)
    IN  IF i > 1 /\ \A k \in 1..(i - 1) : url[k] \in SchemeChars
        THEN Take(url, i - 1)
        ELSE <<>>

\* urlparse(url).netloc: when the text after the scheme starts with "//",
\* what follows up to the next "/", else "".
UrlNetloc(url) ==
    LET sch  == UrlScheme(url)
        rest == IF sch = <<>> THEN url ELSE Drop(url, Len(sch) + 2)
    IN  IF StartsWith(rest, <<"/", "/">>)
        THEN LET after == Drop(rest, 3)
                 j     == Find(after, <<"/">>)
             IN  IF j = 0 THEN after ELSE Take(after, j - 1)
        ELSE <<>>


(***************************************************************************)
(* Paths.  A file of the output tree is <<domain, name>>: the file `name`  *)
(* of the directory base_output_dir / domain.                              *)
(***************************************************************************)
\* The partial-download marker and the sidecar extension of the engine.
PartMarker == <<".", "p", "a", "r", "t">>

YtdlMarker == <<".", "y", "t", "d", "l">>

\* PurePath.suffix: the last dot-extension of the name, "" when the name has
\* none (no dot, a leading dot only, or a trailing dot).
Suffix(name) ==
    LET i == RFind(name, <<".">>)
    IN  IF 1 < i /\ i < Len(name) THEN Drop(name, i) ELSE <<>>

\* PurePath.stem: the name without its suffix.
Stem(name) == Take(name, Len(name) - Len(Suffix(name)))

\* PurePath.with_suffix: the suffix replaced, or appended when there is none.
WithSuffix(name, suffix) == Stem(name) \o suffix

\* Path.exists for directory / name; directory / "" is the directory itself.
Exists(fs, ds, d, name) ==
    IF name = <<>> THEN d \in ds ELSE <<d, name>> \in fs

\* Path.unlink(missing_ok=True) under its try/except: a file whose deletion
\* fails (it is in lk) stays, the failure is logged.
Unlink(fs, path, lk) == IF path \in lk THEN fs ELSE fs \ {path}

\* The names of the directory's entries, as iterdir lists them.
Listing(fs, d) == {p[2] : p \in {q \in fs : q[1] = d}}

(***************************************************************************)
(* FileManager.                                                            *)
(***************************************************************************)
\* A derivation without the third candidate.
GetPartialPathsAppendedOnly(name) ==
    << WithSuffix(name, Suffix(name) \o PartMarker),
       WithSuffix(name, Suffix(name) \o YtdlMarker) >>

\* _get_partial_paths: name.part, name.ytdl and the name with its extension
\* replaced by .part.
GetPartialPaths(name) ==
    << WithSuffix(name, Suffix(name) \o PartMarker),
       WithSuffix(name, Suffix(name) \o YtdlMarker),
       WithSuffix(name, PartMarker) >>

\* A sweep step that deletes an artifact without looking for its base.
SweepChildNoBaseTest(fs, ds, d, name, lk) ==
    IF EndsWith(name, YtdlMarker) \/ Contains(name, PartMarker)
    THEN Unlink(fs, <<d, name>>, lk)
    ELSE fs

\* One iteration of sweep_leftovers' loop, for the entry `name`.
SweepChild(fs, ds, d, name, lk) ==
    IF EndsWith(name, YtdlMarker)
    THEN IF Exists(fs, ds, d, Take(name, Len(name) - 5))
         THEN Unlink(fs, <<d, name>>, lk)
         ELSE fs
    ELSE IF Contains(name, PartMarker)
         THEN IF Exists(fs, ds, d, Take(name, Find(name, PartMarker) - 1))
              THEN Unlink(fs, <<d, name>>, lk)
              ELSE fs
         ELSE fs

\* A sweep that gives up at the first deletion that fails.
RECURSIVE SweepFromStopsAtFailure(_, _, _, _, _)
SweepFromStopsAtFailure(fs, ds, d, todo, lk) ==
    IF todo = {} THEN {fs}
    ELSE UNION {IF <<d, n>> \in lk /\ SweepChild(fs, ds, d, n, {}) # fs
                THEN {fs}
                ELSE SweepFromStopsAtFailure(SweepChild(fs, ds, d, n, lk), ds, d,
                                             todo \ {n}, lk)
                : n \in todo}

\* A sweep that returns after its first deletion.
RECURSIVE SweepFromFirstDeletion(_, _, _, _, _)
SweepFromFirstDeletion(fs, ds, d, todo, lk) ==
    IF todo = {} THEN {fs}
    ELSE UNION {IF SweepChild(fs, ds, d, n, lk) # fs
                THEN {SweepChild(fs, ds, d, n, lk)}
                ELSE SweepFromFirstDeletion(fs, ds, d, todo \ {n}, lk)
                : n \in todo}

\* The file sets sweep_leftovers can leave: the entries listed when the sweep
\* starts are visited one by one, in whatever order the listing has them.
RECURSIVE SweepFrom(_, _, _, _, _)
SweepFrom(fs, ds, d, todo, lk) ==
    IF todo = {} THEN {fs}
    ELSE UNION {SweepFrom(SweepChild(fs, ds, d, n, lk), ds, d, todo \ {n}, lk)
                : n \in todo}

\* sweep_leftovers(directory); a directory that cannot be listed is logged.
SweepLeftovers(fs, ds, d, lk) ==
    IF d \in ds THEN SweepFrom(fs, ds, d, Listing(fs, d), lk) ELSE {fs}

\* A cleanup whose prefix is the final name alone and which does not pass
\* over the final file.
CleanupArtifactsAnyPrefix(fs, d, name, lk) ==
    fs \ ({<<d, n>> : n \in {m \in Listing(fs, d) : StartsWith(m, name)}} \ lk)

\* _cleanup_artifacts: the entries other than the final file whose name
\* starts with name.part are removed, then the sidecar name.ytdl.
CleanupArtifacts(fs, d, name, lk) ==
    LET prefix  == name \o PartMarker
        strays  == {<<d, n>> : n \in {m \in Listing(fs, d) :
                                        m # name /\ StartsWith(m, prefix)}}
        sidecar == <<d, WithSuffix(name, Suffix(name) \o YtdlMarker)>>
    IN  (fs \ (strays \ lk)) \ ({sidecar} \ lk)

\* A skip test that does not look at the disk, and one that forgets the
\* partial files.
ShouldSkipAlways(fs, ds, d, name) == TRUE

ShouldSkipIgnoresPartials(fs, ds, d, name) == Exists(fs, ds, d, name)

\* A skip test that never skips.
ShouldSkipNever(fs, ds, d, name) == FALSE

\* should_skip_download's answer.
ShouldSkipDownload(fs, ds, d, name) ==
    /\ Exists(fs, ds, d, name)
    /\ \A i \in 1..Len(GetPartialPaths(name)) :
           ~Exists(fs, ds, d, GetPartialPaths(name)[i])

\* The files after should_skip_download: the cleanup runs only on a skip.
AfterSkipCheck(fs, ds, d, name, lk) ==
    IF ShouldSkipDownload(fs, ds, d, name)
    THEN CleanupArtifacts(fs, d, name, lk)
    ELSE fs

(***************************************************************************)
(* The inputs of the model.                                                *)
(***************************************************************************)
\* The hosts of the URLs.
DomA == <<"a">>

DomB == <<"b">>

Domains == {DomA, DomB}

\* "http://a/v", and " http://b/v" written with a leading blank.
UrlA == <<"h", "t", "t", "p", ":", "/", "/", "a", "/", "v">>

UrlB == <<" ", "h", "t", "t", "p", ":", "/", "/", "b", "/", "v">>

\* "//a/v": a host and no scheme.
UrlNoScheme == <<"/", "/", "a", "/", "v">>

\* "http:/v": a scheme and no host.
UrlNoHost == <<"h", "t", "t", "p", ":", "/", "v">>

\* A blank line.
UrlBlank == <<" ">>

Urls == {UrlA, UrlB, UrlNoScheme, UrlNoHost, UrlBlank}

\* The file names the primary engine's probe can announce.
VMp4 == <<"v", ".", "m", "p", "4">>

VWebm == <<"v", ".", "w", "e", "b", "m">>

FinalNames == {VMp4, VWebm}

TitlesName == <<"t", "i", "t", "l", "e", "s", ".", "t", "x", "t">>

\* What a titles.txt of an earlier run holds.
OldText == <<"o", "l", "d", "\n">>

\* The files the output tree can hold before the run.
InitialPaths ==
    { <<DomA, VMp4>>, <<DomA, VMp4 \o PartMarker>>, <<DomA, VMp4 \o YtdlMarker>>,
      <<DomA, TitlesName>> }

\* The files whose deletion can fail.
Lockable == { <<DomA, VMp4 \o PartMarker>> }

\* The lists of at most n URLs.
UrlLists(n) == UNION {[1..k -> Urls] : k \in 0..n}

(***************************************************************************)
(* Exceptions.  Every class the collaborators raise derives from           *)
(* Exception; DownloadError is the engine's own class.                     *)
(***************************************************************************)
\* "except handler:" catches an exception of class cls.
Catches(handler, cls) == handler = "Exception" \/ handler = cls

\* downloader.py line 127: the message marks the URL as unsupported.
IsUnsupported(msg) == msg \in {"Unsupported URL", "does not pass URL"}

\* What the engine's constructor, probe and download step can raise.
EngineErrors ==
    { [cls |-> "DownloadError", msg |-> "Unsupported URL"],
      [cls |-> "DownloadError", msg |-> "does not pass URL"],
      [cls |-> "DownloadError", msg |-> "Network error"],
      [cls |-> "RuntimeError",  msg |-> "Network error"] }

\* The handler of the probe (lines 126-132): "none" returns None for an
\* unsupported URL, "raise" re-raises or does not catch.
ProbeHandler(e) ==
    IF Catches("DownloadError", e.cls) /\ IsUnsupported(e.msg)
    THEN "none" ELSE "raise"

\* An outer handler written for another exception class.
YtdlHandlerOtherClass(e) == IF Catches("ValueError", e.cls) THEN "none" ELSE "raise"

\* The outer handler of _download_with_ytdl (lines 139-141).
YtdlHandler(e) == IF Catches("DownloadError", e.cls) THEN "none" ELSE "raise"

\* The handler of _download_with_playwright (lines 172-176).
PlaywrightHandler(e) == IF Catches("Exception", e.cls) THEN "none" ELSE "raise"

\* A handler of download_video that catches the engine's class only.
DownloadVideoHandlerNarrow(e) ==
    IF Catches("DownloadError", e.cls) THEN "none" ELSE "raise"

\* The handler of download_video (lines 220-222).
DownloadVideoHandler(e) == IF Catches("Exception", e.cls) THEN "none" ELSE "raise"

(***************************************************************************)
(* The browser engine's entry point.                                       *)
(***************************************************************************)
\* The parameters of attempt_browser_download that have no default.
BrowserRequired == {"url", "browser", "resolved_profile", "output_dir"}

\* All its parameters.
BrowserParams == BrowserRequired \cup {"wait_timeout_sec"}

\* The keyword arguments _download_with_playwright passes.
BrowserCallArgs == {"url", "resolved_profile", "output_dir", "wait_timeout_sec"}

\* Python binds a call when every argument names a parameter and every
\* parameter without a default gets an argument; else it raises TypeError.
CallBinds(args, required, params) == args \subseteq params /\ required \subseteq args

\* What the browser session does once it runs: a download is saved, or
\* nothing is (playwright missing, no download within the timeout, an error).
BrowserEnv == {"download", "nothing"}

(***************************************************************************)
(* The state.                                                              *)
(***************************************************************************)
VARIABLES
    urls,              \* download_videos' argument
    idx,               \* the position of its loop in urls
    pc,                \* where the run is
    url,               \* download_video's argument
    dirs,              \* the domains whose directory exists under the base
    files,             \* the files of the output tree
    locked,            \* the files whose deletion fails
    text,              \* the content of each domain's titles.txt
    domain_stats,      \* VideoDownloader.domain_stats
    downloaded_files,  \* download_videos' local dict
    expected_path,     \* _download_with_ytdl's expected_path
    result,            \* download_video's local result
    ret,               \* what download_video returned
    escaped,           \* an exception left download_video
    events,            \* the collaborators called in this download_video call
    primary,           \* how the primary attempt of this call ended
    engine,            \* what the primary engine last did in this call
    browserWill,       \* what the browser session of this call would do
    tried,             \* per host, the valid URLs download_video was given
    saved,             \* per host, those for which it returned a path
    uncounted,         \* per host, those that failed in directory creation
    written,           \* the domains whose titles.txt this run wrote
    unwritten,         \* the domains whose titles.txt could not be written
    source,            \* what kind of iterable urls is, and whether it is used up
    called,            \* the URLs download_video was called with, in order
    returned,          \* per host, the paths download_video returned, in order
    resumable,         \* the final names that had a partial file when called
    fm_op,             \* the file manager operation called last on its own
    fm_arg,            \* its argument's file name
    fm_before,         \* the files before it
    fm_answer,         \* what it returned
    env_log,           \* what the collaborators did in this download_video call
    run,               \* which download_videos call on the orchestrator this is
    hist,              \* per list position, env_log of the first call's URL
    finals1,           \* the final media files after the first call
    fm_paths,          \* the candidate list _get_partial_paths returned
    drm_pc,            \* where a detect_drm_in_m3u8 call is
    drm_root,          \* its local root: the text of the manifest, or None
    drm_variant_url,   \* its local variant_url
    drm_variant,       \* its local variant
    drm_fetched,       \* the URLs it asked requests.get for, in order
    drm_result,        \* what it returned
    cli_pc,            \* where a run of cli.main is
    cli_inputs,        \* the positional arguments
    cli_links,         \* the lines of the links file, or None without one
    cli_config,        \* whether the configuration loads and validates
    cli_lstrip,        \* whether this Python's urlsplit strips leading blanks
    cli_valid,         \* main's local valid_urls
    cli_ran,           \* download_videos was called
    cli_exit,          \* the exit code of the process, -1 while it runs
    cap_pc,            \* where a capture_stream_manifest call is
    cap_seen,          \* the network events the page has emitted, in order
    cap_tasks,         \* the on_response calls scheduled and not yet run
    cap_found          \* the event the future found was resolved with, 0 if none

vars ==
    << urls, idx, pc, url, dirs, files, locked, text, domain_stats,
       downloaded_files, expected_path, result, ret, escaped, events, primary,
       engine, browserWill, tried, saved, uncounted, written, unwritten,
       source, called, returned, resumable, fm_op, fm_arg, fm_before,
       fm_answer, env_log, run, hist, finals1, fm_paths, drm_pc, drm_root,
       drm_variant_url, drm_variant, drm_fetched, drm_result, cli_pc,
       cli_inputs, cli_links, cli_config, cli_lstrip, cli_valid, cli_ran,
       cli_exit, cap_pc, cap_seen, cap_tasks, cap_found >>

\* The variables one download_video call works on.
callVars ==
    << url, expected_path, result, ret, escaped, events, primary, engine,
       browserWill, resumable, env_log >>

\* The output tree.
treeVars == << dirs, files, text >>

\* The record of a file manager operation called on its own.
fmVars == << fm_op, fm_arg, fm_before, fm_answer, fm_paths >>

\* Which download_videos call this is, and what the first one left.
runVars == << run, finals1 >>

\* One detect_drm_in_m3u8 call.
drmVars ==
    << drm_pc, drm_root, drm_variant_url, drm_variant, drm_fetched, drm_result >>

\* One run of cli.main.
cliVars ==
    << cli_pc, cli_inputs, cli_links, cli_config, cli_lstrip, cli_valid, cli_ran,
       cli_exit >>

\* One capture_stream_manifest call.
capVars == << cap_pc, cap_seen, cap_tasks, cap_found >>

\* What the orchestrator and the file manager never touch.
sideVars == << drmVars, cliVars, capVars >>

\* A manifest text is the sequence of its lines; this stands for Python's
\* None where a text is expected.
NoText == << None >>

\* A result of detect_drm_in_m3u8; the scheme "null" is Python's None.
Verdict(isDrm, scheme) == [drm |-> isDrm, scheme |-> scheme]

\* The call has not returned.
NoVerdict == Verdict(FALSE, "not returned")

\* No detect_drm_in_m3u8 call is made.
DrmIdle ==
    /\ drm_pc = "off"
    /\ drm_root = NoText
    /\ drm_variant_url = None
    /\ drm_variant = NoText
    /\ drm_fetched = <<>>
    /\ drm_result = NoVerdict

\* No capture_stream_manifest call is made.
CapIdle ==
    /\ cap_pc = "off"
    /\ cap_seen = <<>>
    /\ cap_tasks = <<>>
    /\ cap_found = 0

\* cli.main is not run.
CliIdle ==
    /\ cli_pc = "off"
    /\ cli_inputs = <<>>
    /\ cli_links = NoText
    /\ cli_config = "ok"
    /\ cli_lstrip = FALSE
    /\ cli_valid = <<>>
    /\ cli_ran = FALSE
    /\ cli_exit = -1

\* The batch's bookkeeping.
batchVars ==
    << urls, idx, downloaded_files, tried, saved, uncounted, written, unwritten,
       source, called, returned, hist >>

NoStats == [total |-> 0, success |-> 0]

UnknownDomain ==
    <<"u", "n", "k", "n", "o", "w", "n", "-", "d", "o", "m", "a", "i", "n">>

\* parsed.netloc or "unknown-domain"
DomainOf(u) == IF UrlNetloc(u) = <<>> THEN UnknownDomain ELSE UrlNetloc(u)

\* A URL check that forgets the host.
IsValidUrlSchemeOnly(u) == UrlScheme(u) # <<>>

\* download_video's URL check (line 185): a scheme and a host.
IsValidUrl(u) == UrlScheme(u) # <<>> /\ UrlNetloc(u) # <<>>

\* dict.get(d, {"total": 0, "success": 0})
StatsOf(stats, d) == IF d \in DOMAIN stats THEN stats[d] ELSE NoStats

Init ==
    /\ urls \in UrlLists(MaxUrls)
    /\ source \in {"list", "iterator"}
    /\ idx = 1
    /\ pc = "start"
    /\ files \in {S \in SUBSET InitialPaths : Cardinality(S) <= MaxInitFiles}
    /\ dirs = {p[1] : p \in files}
    /\ locked \in SUBSET (files \cap Lockable)
    /\ text = [d \in Domains |-> IF <<d, TitlesName>> \in files THEN OldText ELSE <<>>]
    /\ domain_stats = <<>>
    /\ downloaded_files = <<>>
    /\ url = None
    /\ expected_path = None
    /\ result = None
    /\ ret = None
    /\ escaped = FALSE
    /\ events = <<>>
    /\ primary = "not run"
    /\ engine = "not run"
    /\ browserWill = "idle"
    /\ tried = [d \in Domains |-> 0]
    /\ saved = [d \in Domains |-> 0]
    /\ uncounted = [d \in Domains |-> 0]
    /\ written = {}
    /\ unwritten = {}
    /\ called = <<>>
    /\ returned = [d \in Domains |-> <<>>]
    /\ resumable = {}
    /\ fm_op = "none"
    /\ fm_arg = <<>>
    /\ fm_before = {}
    /\ fm_answer = FALSE
    /\ env_log = <<>>
    /\ run = "only"
    /\ hist = <<>>
    /\ finals1 = {}
    /\ fm_paths = <<>>
    /\ DrmIdle
    /\ CliIdle
    /\ CapIdle

(***************************************************************************)
(* download_videos' first line and loop (lines 226-235).                   *)
(***************************************************************************)
\* Line 226: the START record logs len(list(urls)).  list() reads the
\* iterable to its end: a list can be read again, an iterator is used up.
LogStart ==
    /\ pc = "start"
    /\ source' = IF source = "iterator" THEN "exhausted" ELSE source
    /\ pc' = "loop"
    /\ UNCHANGED << urls, idx, downloaded_files, tried, saved, uncounted,
                    written, unwritten, called, returned, hist, treeVars,
                    locked, fmVars, runVars, sideVars, domain_stats,
                    callVars >>

\* What "for url in urls" (line 230) still gets from the iterable.
Pending == IF source = "exhausted" THEN <<>> ELSE urls

\* The final names that exist in the directory d next to one of their
\* partial candidates.
WithPartial(fs, ds, d) ==
    {n \in FinalNames :
        /\ Exists(fs, ds, d, n)
        /\ \E i \in 1..Len(GetPartialPaths(n)) : Exists(fs, ds, d, GetPartialPaths(n)[i])}

\* A blank entry is passed over.
SkipBlank ==
    /\ pc = "loop"
    /\ idx <= Len(Pending)
    /\ Strip(Pending[idx]) = <<>>
    /\ idx' = idx + 1
    /\ UNCHANGED << urls, pc, downloaded_files, tried, saved, uncounted,
                    written, unwritten, source, called, returned, hist,
                    treeVars, locked, fmVars, runVars, sideVars, domain_stats,
                    callVars >>

\* download_video is called with the stripped entry.
CallDownloadVideo ==
    /\ pc = "loop"
    /\ idx <= Len(Pending)
    /\ Strip(Pending[idx]) # <<>>
    /\ url' = Strip(Pending[idx])
    /\ called' = Append(called, url')
    /\ resumable' = WithPartial(files, dirs, DomainOf(url'))
    /\ pc' = "validate"
    /\ UNCHANGED << urls, idx, downloaded_files, tried, saved, uncounted,
                    written, unwritten, source, returned, hist, treeVars,
                    locked, fmVars, runVars, sideVars, domain_stats,
                    expected_path, result, ret, escaped, events, primary,
                    engine, browserWill, env_log >>

(***************************************************************************)
(* download_video (lines 178-222).                                         *)
(***************************************************************************)
\* download_video returns v.
ReturnFrom(v) == ret' = v /\ escaped' = FALSE /\ pc' = "return"

\* An exception e reaches download_video's try block.
RaiseInDownloadVideo(e) ==
    /\ ret' = None
    /\ escaped' = (DownloadVideoHandler(e) = "raise")
    /\ pc' = "return"

\* Lines 184-187: the early return for a URL without scheme or host.
ValidateUrl ==
    /\ pc = "validate"
    /\ IF IsValidUrl(url)
       THEN pc' = "mkdir" /\ UNCHANGED << ret, escaped >>
       ELSE ReturnFrom(None)
    /\ UNCHANGED << batchVars, treeVars, locked, fmVars, runVars, sideVars,
                    domain_stats, url, expected_path, result, events, primary,
                    engine, browserWill, resumable, env_log >>

\* An entry of env_log: the collaborator asked and what it did (an error's
\* kind, or the file name it announced or wrote, or "ok").
Did(at, got) == [at |-> at, got |-> got]

\* _ensure_output_dir (lines 34-40): mkdir(parents=True, exist_ok=True),
\* which the file system can refuse.
EnsureOutputDir ==
    /\ pc = "mkdir"
    /\ \E ok \in BOOLEAN :
          IF ok
          THEN /\ dirs' = dirs \cup {DomainOf(url)}
               /\ events' = Append(events, "mkdir")
               /\ env_log' = Append(env_log, Did("mkdir", <<"ok">>))
               /\ pc' = "count"
               /\ UNCHANGED << ret, escaped >>
          ELSE /\ RaiseInDownloadVideo([cls |-> "OSError", msg |-> "mkdir"])
               /\ env_log' = Append(env_log, Did("mkdir", <<"OSError">>))
               /\ UNCHANGED << dirs, events >>
    /\ UNCHANGED << batchVars, files, text, locked, fmVars, runVars, sideVars,
                    domain_stats, url, expected_path, result, primary, engine,
                    browserWill, resumable >>

\* The domain's entry created and no attempt counted.
CountAttemptEntryOnly ==
    /\ pc = "count"
    /\ LET d == DomainOf(url)
       IN  domain_stats' = (d :> StatsOf(domain_stats, d)) @@ domain_stats
    /\ events' = Append(events, "count")
    /\ pc' = "sweep"
    /\ UNCHANGED << batchVars, treeVars, locked, fmVars, runVars, sideVars,
                    url, expected_path, result, ret, escaped, primary, engine,
                    browserWill, resumable, env_log >>

\* The count taken twice.
CountAttemptTwice ==
    /\ pc = "count"
    /\ LET d   == DomainOf(url)
           old == StatsOf(domain_stats, d)
       IN  domain_stats' = (d :> [old EXCEPT !.total = @ + 2]) @@ domain_stats
    /\ events' = Append(events, "count")
    /\ pc' = "sweep"
    /\ UNCHANGED << batchVars, treeVars, locked, fmVars, runVars, sideVars,
                    url, expected_path, result, ret, escaped, primary, engine,
                    browserWill, resumable, env_log >>

\* Lines 190-195: the domain's entry is created when missing, total += 1.
CountAttempt ==
    /\ pc = "count"
    /\ LET d   == DomainOf(url)
           old == StatsOf(domain_stats, d)
       IN  domain_stats' = (d :> [old EXCEPT !.total = @ + 1]) @@ domain_stats
    /\ events' = Append(events, "count")
    /\ pc' = "sweep"
    /\ UNCHANGED << batchVars, treeVars, locked, fmVars, runVars, sideVars,
                    url, expected_path, result, ret, escaped, primary, engine,
                    browserWill, resumable, env_log >>

\* The call going on without the sweep.
SweepDestinationSkipped ==
    /\ pc = "sweep"
    /\ pc' = "ytdl"
    /\ UNCHANGED << batchVars, treeVars, locked, fmVars, runVars, sideVars,
                    domain_stats, url, expected_path, result, ret, escaped,
                    events, primary, engine, browserWill, resumable, env_log >>

\* Line 198: sweep_leftovers on the destination directory.
SweepDestination ==
    /\ pc = "sweep"
    /\ files' \in SweepLeftovers(files, dirs, DomainOf(url), locked)
    /\ events' = Append(events, "sweep")
    /\ pc' = "ytdl"
    /\ UNCHANGED << batchVars, dirs, text, locked, fmVars, runVars, sideVars,
                    domain_stats, url, expected_path, result, ret, escaped,
                    primary, engine, browserWill, resumable, env_log >>

(***************************************************************************)
(* _download_with_ytdl (lines 103-141).                                    *)
(***************************************************************************)
\* merge_output_format (line 66): a merged download ends in .mp4.
MergedName(name) == WithSuffix(name, <<".", "m", "p", "4">>)

\* What the engine did when it raised e, for the record.
Raised(e) ==
    IF e.cls # "DownloadError" THEN "other"
    ELSE IF e.msg \in {"Unsupported URL", "does not pass URL"} THEN "unsupported"
    ELSE "DownloadError"

\* The engine raises e; inProbe: inside the probe's try block (lines 114-132).
\* The attempt returns None (unsupported URL, or a DownloadError caught by
\* the outer handler), or the exception goes on to download_video.
PrimaryRaises(e, inProbe) ==
    LET how == IF inProbe /\ ProbeHandler(e) = "none" THEN "unsupported"
               ELSE IF YtdlHandler(e) = "none" THEN "download_error"
               ELSE "other_error"
    IN  /\ primary' = how
        /\ engine' = Raised(e)
        /\ result' = None
        /\ IF how = "other_error"
           THEN RaiseInDownloadVideo(e)
           ELSE pc' = "after_primary" /\ UNCHANGED << ret, escaped >>

\* Lines 110-132: the options and the engine object are built, the URL is
\* probed and should_skip_download decides on the expected file.
YtdlProbe ==
    /\ pc = "ytdl"
    /\ \/ \E e \in EngineErrors :
             /\ PrimaryRaises(e, FALSE)
             /\ events' = Append(events, "ytdl")
             /\ env_log' = Append(env_log, Did("setup", <<Raised(e)>>))
             /\ UNCHANGED << files, expected_path >>
       \/ \E e \in EngineErrors :
             /\ PrimaryRaises(e, TRUE)
             /\ events' = events \o <<"ytdl", "probe">>
             /\ env_log' = env_log \o << Did("setup", <<"ok">>),
                                         Did("probe", <<Raised(e)>>) >>
             /\ UNCHANGED << files, expected_path >>
       \/ \E n \in FinalNames :
             /\ expected_path' = n
             /\ events' = events \o <<"ytdl", "probe">>
             /\ env_log' = env_log \o << Did("setup", <<"ok">>), Did("probe", n) >>
             /\ files' = AfterSkipCheck(files, dirs, DomainOf(url), n, locked)
             /\ engine' = "ok"
             /\ IF ShouldSkipDownload(files, dirs, DomainOf(url), n)
                THEN /\ result' = n
                     /\ primary' = "skipped"
                     /\ pc' = "after_primary"
                ELSE /\ pc' = "download"
                     /\ UNCHANGED << result, primary >>
             /\ UNCHANGED << ret, escaped >>
    /\ UNCHANGED << batchVars, dirs, text, locked, fmVars, runVars, sideVars,
                    domain_stats, url, browserWill, resumable >>

\* Lines 134-137: the download step.  A failed download leaves the partial
\* file; a finished one leaves the final file, under the probed name or
\* under the merged name, and the attempt returns the probed path.
YtdlDownload ==
    /\ pc = "download"
    /\ events' = Append(events, "download")
    /\ LET d == DomainOf(url)
       IN  \/ \E e \in EngineErrors :
                 /\ PrimaryRaises(e, FALSE)
                 /\ env_log' = Append(env_log, Did("download", <<Raised(e)>>))
                 /\ files' = files \cup {<<d, expected_path \o PartMarker>>}
           \/ \E w \in {expected_path, MergedName(expected_path)} :
                 /\ env_log' = Append(env_log, Did("download", w))
                 /\ files' = Unlink(Unlink(files, <<d, w \o PartMarker>>, locked),
                                    <<d, w \o YtdlMarker>>, locked) \cup {<<d, w>>}
                 /\ result' = expected_path
                 /\ primary' = "downloaded"
                 /\ pc' = "after_primary"
                 /\ UNCHANGED << ret, escaped, engine >>
    /\ UNCHANGED << batchVars, dirs, text, locked, fmVars, runVars, sideVars,
                    domain_stats, url, expected_path, browserWill, resumable >>

(***************************************************************************)
(* _download_with_playwright (lines 143-176), reached when the primary     *)
(* attempt returned None (line 203).                                       *)
(***************************************************************************)
\* The fallback test inverted, and the fallback test dropped.
NeedsFallbackInverted(res) == res # None

NeedsFallbackAlways(res) == TRUE

NeedsFallbackNever(res) == FALSE

\* Line 203: the fallback runs when the primary attempt returned None.
NeedsFallback(res) == res = None

\* The file a browser download is saved as.
BrowserFile == VMp4

\* attempt_browser_download's result once its body runs.
BrowserEngine(will) == IF will = "download" THEN BrowserFile ELSE None

\* A fallback gated by the manifest analysis: the browser engine is called
\* only when detect_drm_in_m3u8 finds no DRM.
PlaywrightDownloadGated ==
    /\ pc = "after_primary"
    /\ NeedsFallback(result)
    /\ \E isDrm \in BOOLEAN :
          /\ drm_result' = Verdict(isDrm, "null")
          /\ drm_pc' = "done"
          /\ events' = IF isDrm THEN events
                       ELSE events \o <<"playwright", "browser_call">>
    /\ pc' = "finish"
    /\ UNCHANGED << batchVars, treeVars, locked, fmVars, runVars, cliVars,
                    capVars, drm_root, drm_variant_url, drm_variant, drm_fetched,
                    domain_stats, url, expected_path, result, ret, escaped,
                    primary, engine, browserWill, resumable, env_log >>

PlaywrightDownload ==
    /\ pc = "after_primary"
    /\ NeedsFallback(result)
    /\ \E will \in BrowserEnv :
          /\ browserWill' = will
          /\ env_log' = Append(env_log, Did("browser", <<will>>))
          /\ IF CallBinds(BrowserCallArgs, BrowserRequired, BrowserParams)
             THEN LET got == BrowserEngine(will)
                      fs  == IF got = None THEN files
                             ELSE files \cup {<<DomainOf(url), got>>}
                  IN  /\ events' = events \o <<"playwright", "browser_call", "browser_run">>
                      /\ files' = fs
                      /\ result' = IF got # None /\ Exists(fs, dirs, DomainOf(url), got)
                                   THEN got ELSE None
                      /\ pc' = "finish"
                      /\ UNCHANGED << ret, escaped >>
             ELSE /\ events' = events \o <<"playwright", "browser_call">>
                  /\ UNCHANGED << files, result >>
                  /\ IF PlaywrightHandler([cls |-> "TypeError", msg |-> "missing argument"]) = "none"
                     THEN pc' = "finish" /\ UNCHANGED << ret, escaped >>
                     ELSE RaiseInDownloadVideo([cls |-> "TypeError", msg |-> "missing argument"])
    /\ UNCHANGED << batchVars, dirs, text, locked, fmVars, runVars, sideVars,
                    domain_stats, url, expected_path, primary, engine,
                    resumable >>

\* The final test without the look at the disk.
ResultCountsUnchecked(fs, ds, d, res) == res # None

\* Line 208: "result and result.exists()".
ResultCounts(fs, ds, d, res) == res # None /\ Exists(fs, ds, d, res)

\* Lines 208-218: the result counts when it is a path that exists.
FinishDownloadVideo ==
    /\ \/ pc = "after_primary" /\ ~NeedsFallback(result)
       \/ pc = "finish"
    /\ IF ResultCounts(files, dirs, DomainOf(url), result)
       THEN /\ domain_stats' =
                [domain_stats EXCEPT ![DomainOf(url)].success = @ + 1]
            /\ ReturnFrom(result)
       ELSE /\ ReturnFrom(None)
            /\ UNCHANGED domain_stats
    /\ UNCHANGED << batchVars, treeVars, locked, fmVars, runVars, sideVars,
                    url, expected_path, result, events, primary, engine,
                    browserWill, resumable, env_log >>

(***************************************************************************)
(* download_videos (lines 224-245) and _create_titles_files (247-277).     *)
(***************************************************************************)
\* How often the collaborator ev was called in the current call.
Occurs(ev) == Cardinality({i \in DOMAIN events : events[i] = ev})

\* The URL has a scheme and a host: it counts for its host in tried, saved.
HasSchemeAndHost(u) == UrlScheme(u) # <<>> /\ UrlNetloc(u) # <<>>

\* The join without the final newline.
RECURSIVE TitlesContentNoFinalNewline(_)
TitlesContentNoFinalNewline(stems) ==
    IF stems = <<>> THEN <<>>
    ELSE IF Len(stems) = 1 THEN Head(stems)
    ELSE Head(stems) \o <<"\n">> \o TitlesContentNoFinalNewline(Tail(stems))

\* "\n".join(files) + "\n"
RECURSIVE TitlesContent(_)
TitlesContent(stems) ==
    IF stems = <<>> THEN <<"\n">>
    ELSE IF Len(stems) = 1 THEN Head(stems) \o <<"\n">>
    ELSE Head(stems) \o <<"\n">> \o TitlesContent(Tail(stems))

\* Lines 236-240: the stem of a returned path is collected under the URL's
\* domain; an exception out of download_video would end the batch.
CollectResult ==
    /\ pc = "return"
    /\ IF escaped
       THEN /\ pc' = "aborted"
            /\ UNCHANGED << idx, downloaded_files, tried, saved, uncounted,
                            returned, hist, callVars >>
       ELSE /\ pc' = "loop"
            /\ idx' = idx + 1
            /\ downloaded_files' =
                 IF ret = None THEN downloaded_files
                 ELSE LET d   == DomainOf(url)
                          old == IF d \in DOMAIN downloaded_files
                                 THEN downloaded_files[d] ELSE <<>>
                      IN  (d :> Append(old, Stem(ret))) @@ downloaded_files
            /\ tried' = IF HasSchemeAndHost(url)
                        THEN [tried EXCEPT ![UrlNetloc(url)] = @ + 1] ELSE tried
            /\ saved' = IF HasSchemeAndHost(url) /\ ret # None
                        THEN [saved EXCEPT ![UrlNetloc(url)] = @ + 1] ELSE saved
            /\ uncounted' = IF HasSchemeAndHost(url) /\ Occurs("mkdir") = 0
                            THEN [uncounted EXCEPT ![UrlNetloc(url)] = @ + 1]
                            ELSE uncounted
            /\ returned' = IF HasSchemeAndHost(url) /\ ret # None
                           THEN [returned EXCEPT ![UrlNetloc(url)] = Append(@, ret)]
                           ELSE returned
            /\ resumable' = {}
            /\ env_log' = <<>>
            /\ hist' = IF run = "first" THEN (idx :> env_log) @@ hist ELSE hist
            /\ url' = None
            /\ expected_path' = None
            /\ result' = None
            /\ ret' = None
            /\ escaped' = FALSE
            /\ events' = <<>>
            /\ primary' = "not run"
            /\ engine' = "not run"
            /\ browserWill' = "idle"
    /\ UNCHANGED << urls, written, unwritten, source, called, treeVars, locked,
                    fmVars, runVars, sideVars, domain_stats >>

\* A titles test that is content with one success.
TitlesDomainsAnySuccess(stats, downloaded) ==
    {d \in DOMAIN downloaded : StatsOf(stats, d).success > 0}

\* The domains _create_titles_files writes a file for (lines 251-258).
TitlesDomains(stats, downloaded) ==
    {d \in DOMAIN downloaded :
        StatsOf(stats, d).total > 0 /\ StatsOf(stats, d).success = StatsOf(stats, d).total}

\* After the loop: titles.txt is written for each such domain.  A write that
\* fails is logged (lines 273-277): the file could not be opened and the
\* directory stays as it was, or it was opened and is left empty (cut).
CreateTitlesFiles ==
    /\ pc = "loop"
    /\ idx > Len(Pending)
    /\ \E failing \in SUBSET TitlesDomains(domain_stats, downloaded_files) :
       \E cut \in SUBSET failing :
          LET done == TitlesDomains(domain_stats, downloaded_files) \ failing
          IN  /\ dirs' = dirs \cup done \cup cut
              /\ files' = files \cup {<<d, TitlesName>> : d \in done \cup cut}
              /\ text' = [d \in Domains |->
                            IF d \in done THEN TitlesContent(downloaded_files[d])
                            ELSE IF d \in cut THEN <<>>
                            ELSE text[d]]
              /\ written' = done
              /\ unwritten' = failing
    /\ pc' = "done"
    /\ UNCHANGED << urls, idx, downloaded_files, tried, saved, uncounted,
                    source, called, returned, hist, locked, fmVars, runVars,
                    sideVars, domain_stats, callVars >>

Next ==
    \/ LogStart
    \/ SkipBlank
    \/ CallDownloadVideo
    \/ ValidateUrl
    \/ EnsureOutputDir
    \/ CountAttempt
    \/ SweepDestination
    \/ YtdlProbe
    \/ YtdlDownload
    \/ PlaywrightDownload
    \/ FinishDownloadVideo
    \/ CollectResult
    \/ CreateTitlesFiles

Spec == Init /\ [][Next]_vars

(***************************************************************************)
(* The file manager on its own: sweep_leftovers and should_skip_download   *)
(* called on one directory, base / a, with every content of at most        *)
(* MaxDirFiles entries.                                                    *)
(***************************************************************************)
\* "v.mp4.part-Frag1": a fragment file of the engine.
FragName == VMp4 \o PartMarker \o <<"-", "F", "r", "a", "g", "1">>

\* "v.mp4.part.ytdl": a sidecar whose base is itself a partial file.
ChainName == VMp4 \o PartMarker \o YtdlMarker

\* "v.part": the final name with its extension replaced.
StemPartName == <<"v">> \o PartMarker

\* "w.mp4.part": a partial file whose final file is never there.
OrphanName == <<"w", ".", "m", "p", "4">> \o PartMarker

\* "v": a final name without extension.
BareName == <<"v">>

\* The entries the directory can have; ".part" is a file of that very name.
DirNames ==
    { VMp4, VMp4 \o PartMarker, VMp4 \o YtdlMarker, StemPartName, FragName,
      ChainName, OrphanName, BareName, TitlesName, PartMarker }

\* The entries whose deletion can fail.
DirLockable == { VMp4 \o PartMarker, FragName }

\* The final names should_skip_download is asked about.
SkipNames == { VMp4, BareName }

InitFiles ==
    /\ files \in {S \in SUBSET {<<DomA, n>> : n \in DirNames} :
                     Cardinality(S) <= MaxDirFiles}
    /\ dirs = {DomA}
    /\ locked \in SUBSET (files \cap {<<DomA, n>> : n \in DirLockable})
    /\ pc = "files"
    /\ urls = <<>>
    /\ source = "list"
    /\ idx = 1
    /\ text = [d \in Domains |-> <<>>]
    /\ domain_stats = <<>>
    /\ downloaded_files = <<>>
    /\ url = None
    /\ expected_path = None
    /\ result = None
    /\ ret = None
    /\ escaped = FALSE
    /\ events = <<>>
    /\ primary = "not run"
    /\ engine = "not run"
    /\ browserWill = "idle"
    /\ tried = [d \in Domains |-> 0]
    /\ saved = [d \in Domains |-> 0]
    /\ uncounted = [d \in Domains |-> 0]
    /\ written = {}
    /\ unwritten = {}
    /\ called = <<>>
    /\ returned = [d \in Domains |-> <<>>]
    /\ resumable = {}
    /\ fm_op = "none"
    /\ fm_arg = <<>>
    /\ fm_before = {}
    /\ fm_answer = FALSE
    /\ env_log = <<>>
    /\ run = "only"
    /\ hist = <<>>
    /\ finals1 = {}
    /\ fm_paths = <<>>
    /\ DrmIdle
    /\ CliIdle
    /\ CapIdle

\* sweep_leftovers(base / a)
CallSweepLeftovers ==
    /\ pc = "files"
    /\ files' \in SweepLeftovers(files, dirs, DomA, locked)
    /\ fm_op' = "sweep"
    /\ fm_paths' = <<>>
    /\ fm_arg' = <<>>
    /\ fm_before' = files
    /\ fm_answer' = FALSE
    /\ UNCHANGED << batchVars, callVars, runVars, sideVars, dirs, text, locked,
                    domain_stats, pc >>

\* should_skip_download(base / a / n)
CallShouldSkipDownload ==
    /\ pc = "files"
    /\ \E n \in SkipNames :
          /\ fm_answer' = ShouldSkipDownload(files, dirs, DomA, n)
          /\ files' = AfterSkipCheck(files, dirs, DomA, n, locked)
          /\ fm_arg' = n
    /\ fm_op' = "skip"
    /\ fm_paths' = <<>>
    /\ fm_before' = files
    /\ UNCHANGED << batchVars, callVars, runVars, sideVars, dirs, text, locked,
                    domain_stats, pc >>

\* _get_partial_paths(base / a / n)
CallGetPartialPaths ==
    /\ pc = "files"
    /\ \E n \in SkipNames \cup {VWebm} :
          /\ fm_paths' = GetPartialPaths(n)
          /\ fm_arg' = n
    /\ fm_op' = "partials"
    /\ fm_before' = files
    /\ fm_answer' = FALSE
    /\ UNCHANGED << batchVars, callVars, runVars, sideVars, treeVars, locked,
                    domain_stats, pc >>

NextFiles ==
    \/ CallSweepLeftovers
    \/ CallShouldSkipDownload
    \/ CallGetPartialPaths

SpecFiles == InitFiles /\ [][NextFiles]_vars

(***************************************************************************)
(* Two download_videos calls on one orchestrator.  domain_stats is set in  *)
(* __init__ (line 25) and nowhere else, so the second call goes on         *)
(* counting where the first stopped; downloaded_files is a local of the    *)
(* call (line 228) and starts empty.  The directory tree is what the first *)
(* call left.                                                              *)
(***************************************************************************)

\* The longest URL list of a call when two calls are made.
MaxRunUrls == 1

\* What host a's directory may hold before the first call: nothing, a
\* complete v.mp4, an interrupted download of it, or both.
RunPaths == {<<DomA, VMp4>>, <<DomA, VMp4 \o PartMarker>>}

\* The first of two calls: the orchestrator is fresh, as in Init, and what
\* the collaborators do for each URL is kept in hist.
InitRuns ==
    /\ urls \in UrlLists(MaxRunUrls)
    /\ source \in {"list", "iterator"}
    /\ idx = 1
    /\ pc = "start"
    /\ files \in SUBSET RunPaths
    /\ dirs = {p[1] : p \in files}
    /\ locked \in SUBSET (files \cap Lockable)
    /\ text = [d \in Domains |-> IF <<d, TitlesName>> \in files THEN OldText ELSE <<>>]
    /\ domain_stats = <<>>
    /\ downloaded_files = <<>>
    /\ url = None
    /\ expected_path = None
    /\ result = None
    /\ ret = None
    /\ escaped = FALSE
    /\ events = <<>>
    /\ primary = "not run"
    /\ engine = "not run"
    /\ browserWill = "idle"
    /\ tried = [d \in Domains |-> 0]
    /\ saved = [d \in Domains |-> 0]
    /\ uncounted = [d \in Domains |-> 0]
    /\ written = {}
    /\ unwritten = {}
    /\ called = <<>>
    /\ returned = [d \in Domains |-> <<>>]
    /\ resumable = {}
    /\ fm_op = "none"
    /\ fm_arg = <<>>
    /\ fm_before = {}
    /\ fm_answer = FALSE
    /\ env_log = <<>>
    /\ run = "first"
    /\ hist = <<>>
    /\ finals1 = {}
    /\ fm_paths = <<>>
    /\ DrmIdle
    /\ CliIdle
    /\ CapIdle

\* The final media files of a tree: no sidecar, no partial marker in the
\* name, and not the titles list.
FinalFiles(fs) ==
    {p \in fs : /\ ~EndsWith(p[2], YtdlMarker)
                /\ ~Contains(p[2], PartMarker)
                /\ p[2] # TitlesName}

\* download_videos is called again with the list l once the first call has
\* returned (lines 224-245): the locals of the call are fresh, the
\* orchestrator's fields and the disk are not.  The counters of what this
\* call did start again.
StartRun(l, src) ==
    /\ pc = "done"
    /\ run = "first"
    /\ run' = "second"
    /\ urls' = l
    /\ source' = src
    /\ idx' = 1
    /\ downloaded_files' = <<>>
    /\ tried' = [d \in Domains |-> 0]
    /\ saved' = [d \in Domains |-> 0]
    /\ uncounted' = [d \in Domains |-> 0]
    /\ written' = {}
    /\ unwritten' = {}
    /\ called' = <<>>
    /\ returned' = [d \in Domains |-> <<>>]
    /\ finals1' = FinalFiles(files)
    /\ pc' = "start"
    /\ UNCHANGED << hist, treeVars, locked, fmVars, sideVars, domain_stats,
                    callVars >>

\* A second call with any list.
CallDownloadVideosAgain == \E l \in UrlLists(MaxRunUrls) : StartRun(l, "list")

NextRuns == Next \/ CallDownloadVideosAgain

SpecRuns == InitRuns /\ [][NextRuns]_vars

\* Two logs agree when a collaborator asked in both did the same in both.
Compatible(a, b) ==
    \A i \in DOMAIN a : \A j \in DOMAIN b : a[i].at = b[j].at => a[i].got = b[j].got

\* In the second call the collaborators do for the URL at each position what
\* they did for it in the first call.
Replayed == (run = "second" /\ idx \in DOMAIN hist) => Compatible(env_log, hist[idx])

\* The second call is given the same object: a list is read again, an
\* iterator that line 226 used up stays used up.
CallDownloadVideosSameList == StartRun(urls, source)

\* The orchestrator's steps in a world that repeats itself.
ReplayedStep == Next /\ Replayed'

NextRerun == ReplayedStep \/ CallDownloadVideosSameList

SpecRerun == InitRuns /\ [][NextRerun]_vars

(***************************************************************************)
(* The manifest DRM analyzer: one detect_drm_in_m3u8 call.  A manifest     *)
(* text is the sequence of its lines; the markers looked for have no line  *)
(* break in them, so a marker is in the text when it is in one of the      *)
(* lines.                                                                  *)
(***************************************************************************)

\* The most lines a manifest has.
MaxLines == 2

\* str.lower
Lower(s) ==
    LET upper == << "A", "B", "C", "D", "E", "F", "G", "H", "I", "J", "K", "L",
                    "M", "N", "O", "P", "Q", "R", "S", "T", "U", "V", "W", "X",
                    "Y", "Z" >>
        lower == << "a", "b", "c", "d", "e", "f", "g", "h", "i", "j", "k", "l",
                    "m", "n", "o", "p", "q", "r", "s", "t", "u", "v", "w", "x",
                    "y", "z" >>
    IN  [i \in 1..Len(s) |->
            IF \E k \in 1..26 : upper[k] = s[i]
            THEN lower[CHOOSE k \in 1..26 : upper[k] = s[i]]
            ELSE s[i]]

\* The words detect_drm_in_m3u8 looks for in the lowered text, and the
\* extension of a sub-manifest reference.
Marker ==
    [ session_key |->
          << "#", "e", "x", "t", "-", "x", "-", "s", "e", "s", "s", "i",
          "o", "n", "-", "k", "e", "y" >>,
      key |->
          << "#", "e", "x", "t", "-", "x", "-", "k", "e", "y" >>,
      sample_aes |->
          << "s", "a", "m", "p", "l", "e", "-", "a", "e", "s" >>,
      aes_128 |->
          << "a", "e", "s", "-", "1", "2", "8" >>,
      fps |->
          << "c", "o", "m", ".", "a", "p", "p", "l", "e", ".", "f", "p",
          "s" >>,
      fairplay |->
          << "f", "a", "i", "r", "p", "l", "a", "y" >>,
      widevine_alpha |->
          << "c", "o", "m", ".", "w", "i", "d", "e", "v", "i", "n", "e",
          ".", "a", "l", "p", "h", "a" >>,
      widevine |->
          << "w", "i", "d", "e", "v", "i", "n", "e" >>,
      m3u8 |->
          << ".", "m", "3", "u", "8" >> ]

\* The encryption markers.
Markers == {Marker[f] : f \in DOMAIN Marker \ {"m3u8"}}

\* The lines a manifest is made of.
Line ==
    \* A session-level key tag with the SAMPLE-AES method.
    [ session_sample |->
          << "#", "E", "X", "T", "-", "X", "-", "S", "E", "S", "S", "I",
          "O", "N", "-", "K", "E", "Y", ":", "M", "E", "T", "H", "O",
          "D", "=", "S", "A", "M", "P", "L", "E", "-", "A", "E", "S" >>,
    \* The same in lower case.
      session_lower |->
          << "#", "e", "x", "t", "-", "x", "-", "s", "e", "s", "s", "i",
          "o", "n", "-", "k", "e", "y", ":", "m", "e", "t", "h", "o",
          "d", "=", "s", "a", "m", "p", "l", "e", "-", "a", "e", "s" >>,
    \* A session-level key tag that names Widevine and no method.
      session_widevine |->
          << "#", "E", "X", "T", "-", "X", "-", "S", "E", "S", "S", "I",
          "O", "N", "-", "K", "E", "Y", ":", "K", "E", "Y", "F", "O",
          "R", "M", "A", "T", "=", "c", "o", "m", ".", "w", "i", "d",
          "e", "v", "i", "n", "e", ".", "a", "l", "p", "h", "a" >>,
    \* A key tag with the AES-128 method.
      key_aes_128 |->
          << "#", "E", "X", "T", "-", "X", "-", "K", "E", "Y", ":", "M",
          "E", "T", "H", "O", "D", "=", "A", "E", "S", "-", "1", "2",
          "8" >>,
    \* A key tag with the SAMPLE-AES method.
      key_sample |->
          << "#", "E", "X", "T", "-", "X", "-", "K", "E", "Y", ":", "M",
          "E", "T", "H", "O", "D", "=", "S", "A", "M", "P", "L", "E",
          "-", "A", "E", "S" >>,
    \* A segment whose path has the word fairplay in it.
      fairplay_path |->
          << "f", "a", "i", "r", "p", "l", "a", "y", "/", "s", ".", "t",
          "s" >>,
    \* A segment whose path has the word aes-128 in it.
      aes_path |->
          << "a", "e", "s", "-", "1", "2", "8", "/", "s", ".", "t", "s"
          >>,
    \* A reference to a sub-manifest, after a blank.
      variant_ref |->
          << " ", "v", ".", "m", "3", "u", "8" >>,
    \* A comment line that ends in the sub-manifest extension.
      comment_ref |->
          << "#", "E", "X", "T", "-", "X", "-", "M", "E", "D", "I", "A",
          ":", "U", "R", "I", "=", "a", ".", "m", "3", "u", "8" >>,
    \* A media segment.
      segment |->
          << "s", ".", "t", "s" >> ]

ManifestLines == {Line[f] : f \in DOMAIN Line}

\* The manifest texts: at most MaxLines lines; <<>> is the empty text.
Bodies == UNION {[1..k -> ManifestLines] : k \in 0..MaxLines}

\* What requests.get does: it raises, or gives a response.
Responses ==
    {[raised |-> TRUE, status |-> 0, body |-> <<>>]}
        \cup {[raised |-> FALSE, status |-> 200, body |-> b] : b \in Bodies}
        \cup {[raised |-> FALSE, status |-> st, body |-> b] :
                 st \in {304, 404, 500},
                 b \in { <<>>, <<Line.session_sample>> }}

\* The URL detect_drm_in_m3u8 is given.
ManifestUrl ==
    << "h", "t", "t", "p", ":", "/", "/", "a", "/", "m", ".", "m", "3", "u",
       "8" >>

\* urljoin(base, ref) for a relative reference without directory part: it
\* takes the place of the last path segment of base.
UrlJoin(base, ref) == Take(base, RFind(base, <<"/">>)) \o ref

\* An _http_get_text that passes the text on whatever the status is.
HttpGetTextAnyStatus(resp) == IF resp.raised THEN NoText ELSE resp.body

\* _http_get_text (lines 62-73): None when requests.get raises or the status
\* is 400 or more, else the text of the response.
HttpGetText(resp) ==
    IF resp.raised THEN NoText
    ELSE IF resp.status >= 400 THEN NoText
    ELSE resp.body

\* "not root": None or the empty string.
IsFalsy(body) == body = NoText \/ body = <<>>

\* The markers in each line, after lower().
MarkersIn == [l \in ManifestLines |-> {m \in Markers : Contains(Lower(l), m)}]

\* marker in text.lower()
TextHas(body, m) == \E i \in DOMAIN body : m \in MarkersIn[body[i]]

\* The scheme is unknown and the manifest is taken as not protected.
Unknown == Verdict(FALSE, "null")

\* The loop goes on to the next test.
GoOn == Verdict(FALSE, "go on")

\* A root inspection that asks for FairPlay before the session key.
RootVerdictFairPlayFirst(body) ==
    IF TextHas(body, Marker.fps) \/ TextHas(body, Marker.fairplay)
    THEN Verdict(TRUE, "FairPlay")
    ELSE IF TextHas(body, Marker.session_key) /\ TextHas(body, Marker.sample_aes)
    THEN Verdict(TRUE, "SAMPLE-AES(session)")
    ELSE IF TextHas(body, Marker.widevine_alpha) \/ TextHas(body, Marker.widevine)
    THEN Verdict(TRUE, "Widevine")
    ELSE GoOn

\* A root inspection that asks for Widevine before FairPlay.
RootVerdictWidevineFirst(body) ==
    IF TextHas(body, Marker.session_key) /\ TextHas(body, Marker.sample_aes)
    THEN Verdict(TRUE, "SAMPLE-AES(session)")
    ELSE IF TextHas(body, Marker.widevine_alpha) \/ TextHas(body, Marker.widevine)
    THEN Verdict(TRUE, "Widevine")
    ELSE IF TextHas(body, Marker.fps) \/ TextHas(body, Marker.fairplay)
    THEN Verdict(TRUE, "FairPlay")
    ELSE GoOn

\* The inspection of the root manifest (lines 87-92).
RootVerdict(body) ==
    IF TextHas(body, Marker.session_key) /\ TextHas(body, Marker.sample_aes)
    THEN Verdict(TRUE, "SAMPLE-AES(session)")
    ELSE IF TextHas(body, Marker.fps) \/ TextHas(body, Marker.fairplay)
    THEN Verdict(TRUE, "FairPlay")
    ELSE IF TextHas(body, Marker.widevine_alpha) \/ TextHas(body, Marker.widevine)
    THEN Verdict(TRUE, "Widevine")
    ELSE GoOn

\* The lines the loop of lines 96-102 stops at: not empty and no comment
\* once stripped, and ending in ".m3u8".
IsVariantRef(line) ==
    /\ Strip(line) # <<>>
    /\ ~StartsWith(Strip(line), <<"#">>)
    /\ EndsWith(Strip(line), Marker.m3u8)

\* variant_url after the loop: the first such line joined to the manifest
\* URL, None when there is none.
VariantUrl(body) ==
    LET refs == {i \in DOMAIN body : IsVariantRef(body[i])}
    IN  IF refs = {} THEN None
        ELSE UrlJoin(ManifestUrl,
                     Strip(body[CHOOSE i \in refs : \A j \in refs : i <= j]))

\* A single-level inspection that does not name AES-128.
SingleLevelVerdictNoAes128(body) ==
    IF TextHas(body, Marker.key) /\ TextHas(body, Marker.sample_aes)
    THEN Verdict(TRUE, "SAMPLE-AES")
    ELSE Unknown

\* A single-level inspection that does not ask for the key tag.
SingleLevelVerdictNoTagTest(body) ==
    IF TextHas(body, Marker.sample_aes) THEN Verdict(TRUE, "SAMPLE-AES")
    ELSE IF TextHas(body, Marker.aes_128) THEN Verdict(FALSE, "AES-128")
    ELSE Unknown

\* The inspection of a manifest without sub-manifest (lines 104-111).
SingleLevelVerdict(body) ==
    IF TextHas(body, Marker.key)
    THEN IF TextHas(body, Marker.sample_aes) THEN Verdict(TRUE, "SAMPLE-AES")
         ELSE IF TextHas(body, Marker.aes_128) THEN Verdict(FALSE, "AES-128")
         ELSE Unknown
    ELSE Unknown

\* The inspection of the variant manifest (lines 118-129).
VariantVerdict(body) ==
    IF TextHas(body, Marker.key)
    THEN IF TextHas(body, Marker.sample_aes) THEN Verdict(TRUE, "SAMPLE-AES")
         ELSE IF TextHas(body, Marker.fps) \/ TextHas(body, Marker.fairplay)
         THEN Verdict(TRUE, "FairPlay")
         ELSE IF TextHas(body, Marker.widevine_alpha) \/ TextHas(body, Marker.widevine)
         THEN Verdict(TRUE, "Widevine")
         ELSE IF TextHas(body, Marker.aes_128) THEN Verdict(FALSE, "AES-128")
         ELSE Unknown
    ELSE Unknown

\* The orchestrator and the file manager are not used.
OrchestratorIdle ==
    /\ urls = <<>>
    /\ source = "list"
    /\ idx = 1
    /\ pc = "off"
    /\ files = {}
    /\ dirs = {}
    /\ locked = {}
    /\ text = [d \in Domains |-> <<>>]
    /\ domain_stats = <<>>
    /\ downloaded_files = <<>>
    /\ url = None
    /\ expected_path = None
    /\ result = None
    /\ ret = None
    /\ escaped = FALSE
    /\ events = <<>>
    /\ primary = "not run"
    /\ engine = "not run"
    /\ browserWill = "idle"
    /\ tried = [d \in Domains |-> 0]
    /\ saved = [d \in Domains |-> 0]
    /\ uncounted = [d \in Domains |-> 0]
    /\ written = {}
    /\ unwritten = {}
    /\ called = <<>>
    /\ returned = [d \in Domains |-> <<>>]
    /\ resumable = {}
    /\ fm_op = "none"
    /\ fm_arg = <<>>
    /\ fm_before = {}
    /\ fm_answer = FALSE
    /\ fm_paths = <<>>
    /\ env_log = <<>>
    /\ run = "only"
    /\ hist = <<>>
    /\ finals1 = {}

\* detect_drm_in_m3u8(ManifestUrl, headers) is called.
InitDrm ==
    /\ OrchestratorIdle
    /\ CliIdle
    /\ CapIdle
    /\ drm_pc = "fetch_root"
    /\ drm_root = NoText
    /\ drm_variant_url = None
    /\ drm_variant = NoText
    /\ drm_fetched = <<>>
    /\ drm_result = NoVerdict

\* The variables no step of the analyzer changes.
drmOthers ==
    << batchVars, callVars, treeVars, locked, domain_stats, pc, fmVars, runVars,
       cliVars, capVars >>

\* return isDrm, scheme
DrmReturn(v) == drm_result' = v /\ drm_pc' = "done"

\* Line 79: the manifest is fetched.
FetchRoot ==
    /\ drm_pc = "fetch_root"
    /\ \E resp \in Responses :
          /\ drm_root' = HttpGetText(resp)
          /\ drm_fetched' = Append(drm_fetched, [url |-> ManifestUrl, resp |-> resp])
    /\ drm_pc' = "inspect_root"
    /\ UNCHANGED << drm_variant_url, drm_variant, drm_result, drmOthers >>

\* Lines 80-111: the root is inspected; the call returns, or goes on to the
\* variant the root refers to.
InspectRoot ==
    /\ drm_pc = "inspect_root"
    /\ IF IsFalsy(drm_root)
       THEN DrmReturn(Unknown) /\ UNCHANGED drm_variant_url
       ELSE IF RootVerdict(drm_root) # GoOn
       THEN DrmReturn(RootVerdict(drm_root)) /\ UNCHANGED drm_variant_url
       ELSE IF VariantUrl(drm_root) = None
       THEN DrmReturn(SingleLevelVerdict(drm_root)) /\ UNCHANGED drm_variant_url
       ELSE /\ drm_variant_url' = VariantUrl(drm_root)
            /\ drm_pc' = "fetch_variant"
            /\ UNCHANGED drm_result
    /\ UNCHANGED << drm_root, drm_variant, drm_fetched, drmOthers >>

\* Line 114: the variant is fetched.
FetchVariant ==
    /\ drm_pc = "fetch_variant"
    /\ \E resp \in Responses :
          /\ drm_variant' = HttpGetText(resp)
          /\ drm_fetched' = Append(drm_fetched,
                                    [url |-> drm_variant_url, resp |-> resp])
    /\ drm_pc' = "inspect_variant"
    /\ UNCHANGED << drm_root, drm_variant_url, drm_result, drmOthers >>

\* A variant inspection that follows a reference found in the variant.
InspectVariantFollowsReference ==
    /\ drm_pc = "inspect_variant"
    /\ IF ~IsFalsy(drm_variant) /\ VariantUrl(drm_variant) # None
       THEN /\ drm_variant_url' = VariantUrl(drm_variant)
            /\ drm_pc' = "fetch_variant"
            /\ UNCHANGED drm_result
       ELSE /\ DrmReturn(IF IsFalsy(drm_variant) THEN Unknown
                         ELSE VariantVerdict(drm_variant))
            /\ UNCHANGED drm_variant_url
    /\ UNCHANGED << drm_root, drm_variant, drm_fetched, drmOthers >>

\* Lines 115-129: the variant is inspected and the call returns.
InspectVariant ==
    /\ drm_pc = "inspect_variant"
    /\ DrmReturn(IF IsFalsy(drm_variant) THEN Unknown
                 ELSE VariantVerdict(drm_variant))
    /\ UNCHANGED << drm_root, drm_variant_url, drm_variant, drm_fetched,
                    drmOthers >>

NextDrm ==
    \/ FetchRoot
    \/ InspectRoot
    \/ FetchVariant
    \/ InspectVariant

SpecDrm == InitDrm /\ [][NextDrm]_vars

(***************************************************************************)
(* cli.main: the configuration is loaded and validated, the inputs are     *)
(* resolved to URLs and validated, and the batch is run.  The exit code    *)
(* is 1 after sys.exit(1) and 0 when main returns.                         *)
(***************************************************************************)
\* The most positional inputs on the command line, and the most lines of the
\* links file.
MaxCliUrls == 2

MaxLinkLines == 1

\* The positional inputs (none of them names an existing file): the URLs
\* above, "https://a/v", "ftp://a/v", and "http://a/v " written with a
\* trailing blank.
CliUrls ==
    Urls \cup { <<"h", "t", "t", "p", "s", ":", "/", "/", "a", "/", "v">>,
                <<"f", "t", "p", ":", "/", "/", "a", "/", "v">>,
                <<"h", "t", "t", "p", ":", "/", "/", "a", "/", "v", " ">> }

CliInputs == UNION {[1..k -> CliUrls] : k \in 0..MaxCliUrls}

\* The links file of the configuration: absent, or its lines, "#a" being a
\* comment.
LinksFiles ==
    LET lines == {UrlA, UrlB, <<"#", "a">>, UrlBlank}
    IN  {NoText} \cup UNION {[1..k -> lines] : k \in 0..MaxLinkLines}

\* What loading and validating the configuration can do: succeed, raise on
\* an unreadable file (Config.from_toml), raise on an unsupported browser
\* (Config.validate).
ConfigOutcomes == {"ok", "unreadable", "invalid"}

\* str.lstrip of the blank.
LStrip(s) ==
    LET keep == {i \in 1..Len(s) : s[i] # " "}
    IN  IF keep = {} THEN <<>>
        ELSE Drop(s, CHOOSE i \in keep : \A j \in keep : i <= j)

\* read_links_file: no URL when the file is absent, else the stripped lines
\* that are neither empty nor comments.
RECURSIVE ReadLines(_)
ReadLines(lines) ==
    IF lines = <<>> THEN <<>>
    ELSE LET line == Strip(Head(lines))
         IN  (IF line # <<>> /\ ~StartsWith(line, <<"#">>) THEN <<line>> ELSE <<>>)
             \o ReadLines(Tail(lines))

ReadLinksFile(file) == IF file = NoText THEN <<>> ELSE ReadLines(file)

\* resolve_urls for inputs that name no file: each item is a URL.
ResolveUrls(inputs) == inputs

\* The schemes validate_urls accepts.
HttpSchemes == { <<"h", "t", "t", "p">>, <<"h", "t", "t", "p", "s">> }

\* Lines 42-43: parsed.scheme in {"http", "https"} and parsed.netloc, where
\* urlsplit drops leading blanks in the Python versions that carry that
\* change, and only there.
Accepts(u, lstrips) ==
    LET parsed == IF lstrips THEN LStrip(u) ELSE u
    IN  /\ UrlScheme(parsed) \in HttpSchemes
        /\ UrlNetloc(parsed) # <<>>

\* validate_urls: the accepted URLs, as given, in input order.
RECURSIVE ValidateUrls(_, _)
ValidateUrls(us, lstrips) ==
    IF us = <<>> THEN <<>>
    ELSE (IF Accepts(Head(us), lstrips) THEN <<Head(us)>> ELSE <<>>)
         \o ValidateUrls(Tail(us), lstrips)

\* VideoDownloader(browser=..., browser_profile=..., cookies_file=...) returns
\* an object: the call binds to the parameters of VideoDownloader.__init__,
\* and its BrowserProfileManager() call binds to the required parameter of
\* BrowserProfileManager.__init__ (Python raises TypeError otherwise).
Constructs ==
    LET keywords == {"browser", "browser_profile", "cookies_file"}
        params   == {"browser_profile"}
    IN  /\ CallBinds(keywords, {}, params)
        /\ CallBinds({}, {"browser"}, {"browser"})

\* main(argv) is called.
InitCli ==
    /\ OrchestratorIdle
    /\ DrmIdle
    /\ CapIdle
    /\ cli_pc = "config"
    /\ cli_inputs \in CliInputs
    /\ cli_links \in LinksFiles
    /\ cli_config \in ConfigOutcomes
    /\ cli_lstrip \in BOOLEAN
    /\ cli_valid = <<>>
    /\ cli_ran = FALSE
    /\ cli_exit = -1

\* The variables no step of main changes.
cliOthers ==
    << batchVars, callVars, treeVars, locked, domain_stats, pc, fmVars, runVars,
       drmVars, capVars >>

\* except Exception: sys.exit(1)
CliFail == cli_exit' = 1 /\ cli_pc' = "done"

\* main returns.
CliReturn == cli_exit' = 0 /\ cli_pc' = "done"

\* Lines 88-105: the configuration is loaded and validated.
LoadConfig ==
    /\ cli_pc = "config"
    /\ IF cli_config = "ok"
       THEN cli_pc' = "urls" /\ UNCHANGED cli_exit
       ELSE CliFail
    /\ UNCHANGED << cli_inputs, cli_links, cli_config, cli_lstrip, cli_valid,
                    cli_ran, cliOthers >>

\* Lines 108-118: the URLs are resolved and validated; main returns when
\* none is valid.
ValidateInputs ==
    /\ cli_pc = "urls"
    /\ LET given == IF cli_inputs # <<>> THEN ResolveUrls(cli_inputs)
                    ELSE ReadLinksFile(cli_links)
           valid == ValidateUrls(given, cli_lstrip)
       IN  /\ cli_valid' = valid
           /\ IF valid = <<>>
              THEN CliReturn
              ELSE cli_pc' = "download" /\ UNCHANGED cli_exit
    /\ UNCHANGED << cli_inputs, cli_links, cli_config, cli_lstrip, cli_ran,
                    cliOthers >>

\* Lines 131-143: the downloader is constructed and the batch is run; an
\* exception of either ends main with sys.exit(1).
RunBatch ==
    /\ cli_pc = "download"
    /\ IF Constructs
       THEN \E raises \in BOOLEAN :
               /\ cli_ran' = TRUE
               /\ IF raises THEN CliFail ELSE CliReturn
       ELSE CliFail /\ UNCHANGED cli_ran
    /\ UNCHANGED << cli_inputs, cli_links, cli_config, cli_lstrip, cli_valid,
                    cliOthers >>

NextCli == LoadConfig \/ ValidateInputs \/ RunBatch

SpecCli == InitCli /\ [][NextCli]_vars


(***************************************************************************)
(* capture_stream_manifest (lines 131-334): the page's request and         *)
(* response events reach the two handlers while the call awaits the page   *)
(* and then the future found.  The request handler is a plain function     *)
(* and runs when the event is emitted; on_response is a coroutine          *)
(* function, so each response schedules a call of it that the event loop   *)
(* runs later, in scheduling order.                                        *)
(***************************************************************************)
\* The most network events the page emits during the call.
MaxEvents == 3

\* The substrings looked for: by _maybe_set in the URL (line 249), by
\* on_response in the URL and in the content type (lines 263-264).
Patterns ==
    [ maybe_set |->
          { <<".", "m", "3", "u", "8">>,
            <<".", "m", "p", "d">>,
            <<"f", "o", "r", "m", "a", "t", "=", "m", "3", "u", "8">> },
      response_url |->
          { <<".", "m", "3", "u", "8">>,
            <<".", "m", "p", "d">> },
      content_type |->
          { <<"m", "p", "e", "g", "u", "r", "l">>,
            <<"d", "a", "s", "h", "+", "x", "m", "l">> } ]

\* The events a page can emit: requests and responses for "v.m3u8",
\* "v.mpd", "v?format=m3u8" and "v", the responses with the content type
\* "application/vnd.apple.mpegurl", "application/dash+xml" or "text/html".
NetEvents ==
    LET us == { <<"v", ".", "m", "3", "u", "8">>,
                <<"v", ".", "m", "p", "d">>,
                <<"v", "?", "f", "o", "r", "m", "a", "t", "=", "m", "3",
                  "u", "8">>,
                <<"v">> }
        cs == { <<"a", "p", "p", "l", "i", "c", "a", "t", "i", "o", "n",
                  "/", "v", "n", "d", ".", "a", "p", "p", "l", "e", ".",
                  "m", "p", "e", "g", "u", "r", "l">>,
                <<"a", "p", "p", "l", "i", "c", "a", "t", "i", "o", "n",
                  "/", "d", "a", "s", "h", "+", "x", "m", "l">>,
                <<"t", "e", "x", "t", "/", "h", "t", "m", "l">> }
    IN  {[kind |-> "request", url |-> u, ctype |-> <<>>] : u \in us}
            \cup {[kind |-> "response", url |-> u, ctype |-> c] : u \in us, c \in cs}

\* any(s in x for s in patterns)
HasAny(x, patterns) == \E s \in patterns : Contains(x, s)

\* _maybe_set(url, headers) for the event seen[i] (lines 247-253): the future
\* is resolved with it when its URL has a pattern and the future is not done.
MaybeSet(found, seen, i) ==
    IF HasAny(seen[i].url, Patterns.maybe_set) /\ found = 0 THEN i ELSE found

\* on_response for the event seen[i] (lines 259-271): _maybe_set is called
\* when the URL or the content type has a pattern.
OnResponse(found, seen, i) ==
    IF \/ HasAny(seen[i].url, Patterns.response_url)
       \/ HasAny(seen[i].ctype, Patterns.content_type)
    THEN MaybeSet(found, seen, i)
    ELSE found

\* What the call returns: the event found was resolved with (its URL and
\* request headers), None after a timeout or a failure.
CaptureResult == IF cap_pc = "returned" THEN cap_found ELSE 0

\* capture_stream_manifest(page_url, ...) has opened the page with both
\* handlers registered.
InitCapture ==
    /\ OrchestratorIdle
    /\ DrmIdle
    /\ CliIdle
    /\ cap_pc = "open"
    /\ cap_seen = <<>>
    /\ cap_tasks = <<>>
    /\ cap_found = 0

\* The variables no step of the capture changes.
capOthers ==
    << batchVars, callVars, treeVars, locked, domain_stats, pc, fmVars, runVars,
       drmVars, cliVars >>

\* Lines 255-257: the page emits a request; the handler runs at once.
EmitRequest ==
    /\ cap_pc = "open"
    /\ Len(cap_seen) < MaxEvents
    /\ \E ev \in {e \in NetEvents : e.kind = "request"} :
          /\ cap_seen' = Append(cap_seen, ev)
          /\ cap_found' = MaybeSet(cap_found, cap_seen', Len(cap_seen'))
    /\ UNCHANGED << cap_pc, cap_tasks, capOthers >>

\* Line 273: the page emits a response; a call of on_response is scheduled.
EmitResponse ==
    /\ cap_pc = "open"
    /\ Len(cap_seen) < MaxEvents
    /\ \E ev \in {e \in NetEvents : e.kind = "response"} :
          cap_seen' = Append(cap_seen, ev)
    /\ cap_tasks' = Append(cap_tasks, Len(cap_seen'))
    /\ UNCHANGED << cap_pc, cap_found, capOthers >>

\* Lines 259-271: the event loop runs the oldest scheduled on_response call.
RunOnResponse ==
    /\ cap_pc = "open"
    /\ cap_tasks # <<>>
    /\ cap_found' = OnResponse(cap_found, cap_seen, Head(cap_tasks))
    /\ cap_tasks' = Tail(cap_tasks)
    /\ UNCHANGED << cap_pc, cap_seen, capOthers >>

\* Lines 313-320: wait_for gives the result of found; it is returned.
WaitForFound ==
    /\ cap_pc = "open"
    /\ cap_found # 0
    /\ cap_pc' = "returned"
    /\ UNCHANGED << cap_seen, cap_tasks, cap_found, capOthers >>

\* Lines 321-327: the wait times out with found not done; None is returned.
WaitTimesOut ==
    /\ cap_pc = "open"
    /\ cap_found = 0
    /\ cap_tasks = <<>>
    /\ cap_pc' = "timeout"
    /\ UNCHANGED << cap_seen, cap_tasks, cap_found, capOthers >>

\* Lines 330-334: an exception of the browser (launch, navigation) ends the
\* call with None.
CaptureFails ==
    /\ cap_pc = "open"
    /\ cap_pc' = "failure"
    /\ UNCHANGED << cap_seen, cap_tasks, cap_found, capOthers >>

NextCapture ==
    \/ EmitRequest
    \/ EmitResponse
    \/ RunOnResponse
    \/ WaitForFound
    \/ WaitTimesOut
    \/ CaptureFails

SpecCapture == InitCapture /\ [][NextCapture]_vars


(***************************************************************************)
(* The claims.  A download_video call has returned when pc = "return":     *)
(* ret, result, events, engine and primary then describe that call, while  *)
(* tried and saved still count the earlier calls of the run only.          *)
(***************************************************************************)
\* The first position of ev in the current call's events, 0 when absent.
FirstAt(ev) ==
    LET at == {i \in DOMAIN events : events[i] = ev}
    IN  IF at = {} THEN 0 ELSE CHOOSE i \in at : \A j \in at : i <= j

\* The current call has returned.
Returned == pc = "return"

\* The primary attempt of the current call returned None.
PrimaryGaveNothing == primary \in {"unsupported", "download_error"}

\* The primary attempt of the current call returned a path.
PrimaryGavePath == primary \in {"skipped", "downloaded"}

\* C1: in every step of a download_video call whose URL lacks a scheme or
\* lacks a host, no directory is created, no file changes, domain_stats
\* stays as it was, no collaborator (mkdir, sweep, primary engine, browser
\* engine) is called, and the call only goes on to return None.
C1_InvalidUrlTouchesNothing ==
    [][ (url' # None /\ (UrlScheme(url') = <<>> \/ UrlNetloc(url') = <<>>))
        => /\ pc' \in {"validate", "return"}
           /\ ret' = None
           /\ ~escaped'
           /\ events' = <<>>
           /\ dirs' = dirs
           /\ files' = files
           /\ domain_stats' = domain_stats ]_vars

\* C1 witness: a call with "//a/v" (host a, no scheme) has returned None
\* while host a already has statistics from an earlier URL of the run.
C1_Witness ==
    /\ Returned
    /\ url = UrlNoScheme
    /\ ret = None
    /\ DomA \in DOMAIN domain_stats

C3_NoExceptionEscapes == ~escaped /\ pc # "aborted"

\* C3 witness: a call has returned None after the primary engine raised an
\* exception that is no DownloadError, which download_video caught.
C3_Witness ==
    /\ Returned
    /\ ret = None
    /\ engine = "other"
    /\ primary = "other_error"

\* C4 as claimed: after any failure of the primary engine other than the
\* unsupported-URL signal, the browser engine was attempted in the call.
C4_AnyFailureEscalates ==
    (Returned /\ engine \in {"DownloadError", "other"}) => Occurs("playwright") = 1

\* C4 amended: a failure raised as DownloadError escalates to the browser
\* engine; an exception of another class ends the call with None and
\* without a browser attempt.
C4_DownloadErrorEscalates ==
    /\ (Returned /\ engine = "DownloadError") => Occurs("playwright") = 1
    /\ (Returned /\ engine = "other") => (Occurs("playwright") = 0 /\ ret = None)

\* C4 witness: the download step raised a DownloadError that is not the
\* unsupported-URL signal, and the browser engine was attempted.
C4_Witness ==
    /\ Returned
    /\ engine = "DownloadError"
    /\ Occurs("download") = 1
    /\ Occurs("playwright") = 1

\* C5 as claimed: a call for a URL with scheme and host returns None only
\* after the browser engine was called.
C5_FailedOnlyAfterBrowser ==
    (Returned /\ HasSchemeAndHost(url) /\ ret = None) => Occurs("browser_call") = 1

\* C5 amended: such a call returns None only after the browser engine was
\* called, or after a caught exception (mkdir failed, or the primary engine
\* raised an exception that is no DownloadError), or after the primary
\* attempt returned a path that does not exist.
C5_FailedRoutes ==
    (Returned /\ HasSchemeAndHost(url) /\ ret = None)
        => \/ Occurs("browser_call") = 1
           \/ Occurs("mkdir") = 0
           \/ engine = "other"
           \/ PrimaryGavePath /\ <<UrlNetloc(url), result>> \notin files

\* C5 witness: a valid URL's call returned None after the browser call.
C5_Witness ==
    /\ Returned
    /\ HasSchemeAndHost(url)
    /\ ret = None
    /\ PrimaryGaveNothing
    /\ Occurs("browser_call") = 1

\* C6: in one call each engine runs at most once (one probe, one download
\* step, one browser call), the browser engine starts only after the primary
\* attempt has returned, and only when that attempt returned no path.
C6_OneAttemptEach ==
    /\ Occurs("ytdl") <= 1
    /\ Occurs("probe") <= 1
    /\ Occurs("download") <= 1
    /\ Occurs("playwright") <= 1
    /\ Occurs("browser_call") <= 1
    /\ Occurs("playwright") = 1
         => /\ PrimaryGaveNothing
            /\ 0 < FirstAt("ytdl")
            /\ FirstAt("ytdl") < FirstAt("playwright")
    /\ PrimaryGavePath => Occurs("playwright") = 0

\* C6 witness: both engines ran in one call, the download step first.
C6_Witness ==
    /\ Returned
    /\ Occurs("download") = 1
    /\ Occurs("browser_call") = 1

\* C7: download_video returns a path exactly when the last engine's result
\* is a path that exists; the path returned is that result; and the success
\* counter of the URL's host is one more than before the call in that case
\* and unchanged otherwise, like every other host's.
C7_PathIffSavedFileExists ==
    Returned
        => /\ (ret # None) <=> (result # None /\ <<UrlNetloc(url), result>> \in files)
           /\ ret # None => ret = result
           /\ \A h \in Domains :
                 StatsOf(domain_stats, h).success
                     = saved[h] + (IF ret # None /\ h = UrlNetloc(url) THEN 1 ELSE 0)

\* C7 witness: a second success for host a, with the download step run.
C7_Witness ==
    /\ Returned
    /\ ret # None
    /\ Occurs("download") = 1
    /\ saved[DomA] = 1
    /\ StatsOf(domain_stats, DomA).success = 2

\* C8 as claimed: when the primary attempt returned None and the browser
\* session delivers a download, download_video returns the saved path and
\* counts the URL as succeeded.
C8_BrowserSaveEndsInDone ==
    (Returned /\ PrimaryGaveNothing /\ browserWill = "download")
        => /\ ret = BrowserFile
           /\ StatsOf(domain_stats, UrlNetloc(url)).success = saved[UrlNetloc(url)] + 1

C10_TitlesExistenceMeansAllSucceeded ==
    pc = "done"
        => \A d \in Domains : <<d, TitlesName>> \in files => saved[d] = tried[d]


\* One line per name: its stem and a newline.
RECURSIVE StemLines(_)
StemLines(names) ==
    IF names = <<>> THEN <<>>
    ELSE Stem(Head(names)) \o <<"\n">> \o StemLines(Tail(names))

\* How many newlines the text has.
LineCount(t) == Cardinality({i \in DOMAIN t : t[i] = "\n"})

RECURSIVE NonBlank(_)
NonBlank(l) ==
    IF l = <<>> THEN <<>>
    ELSE IF Strip(Head(l)) = <<>> THEN NonBlank(Tail(l))
    ELSE <<Strip(Head(l))>> \o NonBlank(Tail(l))

\* C13 as claimed: when download_videos has finished, download_video was
\* called exactly once for every non-blank URL of the input, in input order.
C13_EveryUrlCalledOnce ==
    pc = "done" => called = NonBlank(urls)

\* The final file n of the current call's directory is there and none of
\* n.part, n.ytdl, stem(n).part is.
Complete(n) ==
    LET d == DomainOf(url)
    IN  /\ <<d, n>> \in files
        /\ <<d, n \o PartMarker>> \notin files
        /\ <<d, n \o YtdlMarker>> \notin files
        /\ <<d, Stem(n) \o PartMarker>> \notin files

\* C15: the download step runs only after the probe; when the probed file
\* is complete the attempt returns its path at once, the file is there and
\* download_video returns it, and the download step never runs; the download
\* step is entered only for a file that is not complete.
C15_ProbeThenSkipWithoutDownload ==
    /\ Occurs("download") = 1
         => (0 < FirstAt("probe") /\ FirstAt("probe") < FirstAt("download"))
    /\ primary = "skipped"
         => /\ Occurs("download") = 0
            /\ Occurs("playwright") = 0
            /\ result = expected_path
            /\ <<DomainOf(url), expected_path>> \in files
            /\ Returned => ret = expected_path
    /\ pc = "download" => ~Complete(expected_path)

\* C15 witness: the call returned the probed path without a download step.
C15_Witness ==
    /\ Returned
    /\ primary = "skipped"
    /\ ret = VMp4
    /\ Occurs("probe") = 1
    /\ Occurs("download") = 0

\* C17 as claimed: when the probed final file was in the destination
\* directory together with one of its partial candidates at the time
\* download_video was called, the primary attempt does not report the file
\* as complete.
C17_InterruptedIsResumed ==
    (expected_path # None /\ expected_path \in resumable) => primary # "skipped"


(***************************************************************************)
(* The file manager's claims, under SpecFiles: fm_before holds the         *)
(* directory before the operation called last, files the directory after.  *)
(***************************************************************************)
\* The entry n was in the directory before the operation.
Was(n) == <<DomA, n>> \in fm_before

\* The entry n is in the directory now.
Is(n) == <<DomA, n>> \in files

\* The names of the entries before the operation.
WasNames == {q[2] : q \in fm_before}

\* A sidecar: the name ends in ".ytdl".
IsSidecar(n) == EndsWith(n, YtdlMarker)

\* A partial-marker file: the name contains ".part" (and is no sidecar).
IsPartial(n) == ~IsSidecar(n) /\ Contains(n, PartMarker)

\* The name of the base file of a sidecar or partial-marker file.
BaseOf(n) ==
    IF IsSidecar(n) THEN Take(n, Len(n) - Len(YtdlMarker))
    ELSE Take(n, Find(n, PartMarker) - 1)

\* C16: should_skip_download(p) answers true exactly when p exists and none
\* of p.part, p.ytdl and stem(p).part exists.
C16_SkipIffCompleteFile ==
    fm_op = "skip"
        => fm_answer = ( /\ Was(fm_arg)
                         /\ ~Was(fm_arg \o PartMarker)
                         /\ ~Was(fm_arg \o YtdlMarker)
                         /\ ~Was(Stem(fm_arg) \o PartMarker) )

\* C16 witness: v.mp4 was asked about next to v.part, its third candidate
\* only, and the answer was false.
C16_Witness ==
    /\ fm_op = "skip"
    /\ fm_arg = VMp4
    /\ Was(VMp4)
    /\ Was(StemPartName)
    /\ ~Was(VMp4 \o PartMarker)
    /\ ~Was(VMp4 \o YtdlMarker)
    /\ ~fm_answer

\* C18 as claimed: after a sweep, a sidecar or partial-marker file whose
\* base file was absent when the sweep started is still there, and one whose
\* base file was present when the sweep started is gone.
C18_SweepDeletesExactlyBasedArtifacts ==
    fm_op = "sweep"
        => \A n \in WasNames :
              (IsSidecar(n) \/ IsPartial(n))
                  => /\ ~Was(BaseOf(n)) => Is(n)
                     /\ Was(BaseOf(n)) => ~Is(n)

\* C19 as claimed: after a sweep, every file that was no sidecar or
\* partial-marker file of a base file present when the sweep started is
\* still there.
C19_SweepKeepsEverythingElse ==
    fm_op = "sweep"
        => \A n \in WasNames :
              ~((IsSidecar(n) \/ IsPartial(n)) /\ Was(BaseOf(n))) => Is(n)

\* C20: when should_skip_download answered skip, the final file is still
\* there; every other entry whose name starts with the final name followed
\* by ".part", and the sidecar, is gone unless its deletion failed; every
\* other entry is untouched; and without a skip nothing is deleted.
C20_SkipCleanupRemovesStrays ==
    fm_op = "skip"
        => /\ fm_answer
             => /\ Is(fm_arg)
                /\ \A n \in WasNames :
                      LET stray == \/ n # fm_arg /\ StartsWith(n, fm_arg \o PartMarker)
                                   \/ n = fm_arg \o YtdlMarker
                      IN  Is(n) <=> (~stray \/ <<DomA, n>> \in locked)
           /\ ~fm_answer => files = fm_before
           /\ files \subseteq fm_before

\* C20 witness: v.mp4 was skipped; the fragment file next to it is gone.
C20_Witness ==
    /\ fm_op = "skip"
    /\ fm_answer
    /\ fm_arg = VMp4
    /\ Was(FragName)
    /\ ~Is(FragName)
    /\ Is(VMp4)


(***************************************************************************)
(* Claims about two download_videos calls on one orchestrator.             *)
(***************************************************************************)

\* C12: whether a host's titles.txt is written by a download_videos call
\* depends on the URLs of that call only: in a second call on the same
\* orchestrator, a host whose URLs of that call were all counted and all
\* succeeded, and whose titles write did not fail, has its file written,
\* whatever the first call's outcomes were.
C12_TitlesDependOnThisCallOnly ==
    (run = "second" /\ pc = "done") =>
        \A d \in Domains :
            (tried[d] > 0 /\ saved[d] = tried[d] /\ uncounted[d] = 0
                /\ d \notin unwritten) => d \in written

\* The entries of a log.
Logged(log) == {log[i] : i \in DOMAIN log}

C21_SweepGoesOnAfterFailure ==
    fm_op = "sweep"
        => \A n \in WasNames :
              /\ <<DomA, n>> \in locked => Is(n)
              /\ ( /\ IsSidecar(n) \/ IsPartial(n)
                   /\ <<DomA, n>> \notin locked
                   /\ Exists(files, dirs, DomA, BaseOf(n)) ) => ~Is(n)

\* C21 witness: v.mp4.part could not be deleted and is still there next to
\* v.mp4; the sidecar v.mp4.ytdl and the fragment v.mp4.part-Frag1 of the
\* same sweep are gone.
C21_Witness ==
    /\ fm_op = "sweep"
    /\ <<DomA, VMp4 \o PartMarker>> \in locked
    /\ Is(VMp4)
    /\ Is(VMp4 \o PartMarker)
    /\ Was(VMp4 \o YtdlMarker) /\ ~Is(VMp4 \o YtdlMarker)
    /\ Was(FragName) /\ ~Is(FragName)

\* The paths of a candidate list.
Candidates == {fm_paths[i] : i \in DOMAIN fm_paths}

\* C22 as claimed: for every final path the derivation gives three distinct
\* paths.
C22_ThreeDistinctCandidates ==
    fm_op = "partials" => Cardinality(Candidates) = 3

\* C22: the derivation gives the list p.part, p.ytdl, stem(p).part whatever
\* the directory holds, and touches no file; the three are distinct exactly
\* when p has an extension (without one the first and the third are the
\* same path).
C22_CandidatesOfTheName ==
    fm_op = "partials"
        => /\ fm_paths = << fm_arg \o PartMarker, fm_arg \o YtdlMarker,
                            Stem(fm_arg) \o PartMarker >>
           /\ files = fm_before
           /\ Cardinality(Candidates) = IF Suffix(fm_arg) = <<>> THEN 2 ELSE 3

\* C22 witness: the candidates of "v", which has no extension, were derived
\* in a directory that holds v and v.part: v.part comes twice.
C22_Witness ==
    /\ fm_op = "partials"
    /\ fm_arg = BareName
    /\ Is(BareName)
    /\ Is(StemPartName)
    /\ fm_paths[1] = fm_paths[3]

(***************************************************************************)
(* The DRM analyzer's claims, under SpecDrm.  drm_fetched holds what each  *)
(* requests.get was asked and what it did; the claims speak of the lines   *)
(* of the fetched texts.                                                   *)
(***************************************************************************)
\* detect_drm_in_m3u8 has returned.
DrmDone == drm_pc = "done"

\* The response has a text and a status below 400.
Fetched(resp) == ~resp.raised /\ resp.status < 400

\* The manifest has one of the lines.
HasLine(body, lines) == \E i \in DOMAIN body : body[i] \in lines

\* The lines with a session-level key tag, with the words SAMPLE-AES, with
\* a key tag, with a FairPlay marker and with a Widevine marker.
SessionTagLines == {Line.session_sample, Line.session_lower, Line.session_widevine}

SampleAesLines == {Line.session_sample, Line.session_lower, Line.key_sample}

KeyTagLines == {Line.key_aes_128, Line.key_sample}

FairPlayLines == {Line.fairplay_path}

WidevineLines == {Line.session_widevine}

\* What was asked for the root manifest, and for the variant.
RootResp == drm_fetched[1].resp

VariantResp == drm_fetched[2].resp

\* C23: when the manifest fetched for the given URL has a session-level key
\* tag and the words SAMPLE-AES, in whatever case and next to whatever else,
\* the call returns (true, "SAMPLE-AES(session)").
C23_SessionSampleAesIsDrm ==
    ( /\ DrmDone
      /\ Fetched(RootResp)
      /\ HasLine(RootResp.body, SessionTagLines)
      /\ HasLine(RootResp.body, SampleAesLines) )
        => drm_result = Verdict(TRUE, "SAMPLE-AES(session)")

\* C23 witness: the manifest had the tag in lower case and a FairPlay word
\* before it.
C23_Witness ==
    /\ DrmDone
    /\ RootResp.status = 200
    /\ RootResp.body = <<Line.fairplay_path, Line.session_lower>>
    /\ drm_result = Verdict(TRUE, "SAMPLE-AES(session)")

\* The only encryption marker of the manifest is a key tag with AES-128.
OnlyAes128Key(body, others) ==
    /\ HasLine(body, {Line.key_aes_128})
    /\ \A i \in DOMAIN body : body[i] \in {Line.key_aes_128} \cup others

\* C24 as claimed: for a fetched manifest whose only encryption marker is a
\* key tag with method AES-128 the call returns (false, "AES-128").
C24_Aes128KeyIsNamed ==
    ( /\ DrmDone
      /\ Fetched(RootResp)
      /\ OnlyAes128Key(RootResp.body,
                       {Line.variant_ref, Line.comment_ref, Line.segment, Line.aes_path}) )
        => drm_result = Verdict(FALSE, "AES-128")

\* C24: for a fetched manifest whose only encryption marker is a key tag
\* with method AES-128 and which refers to no sub-manifest, the call
\* returns (false, "AES-128").
C24_SingleLevelAes128KeyIsNamed ==
    ( /\ DrmDone
      /\ Fetched(RootResp)
      /\ OnlyAes128Key(RootResp.body, {Line.comment_ref, Line.segment, Line.aes_path}) )
        => drm_result = Verdict(FALSE, "AES-128")

\* C24 witness: the manifest had the AES-128 key tag and a comment line
\* ending in ".m3u8", which is no reference; one fetch was made.
C24_Witness ==
    /\ DrmDone
    /\ RootResp.status = 200
    /\ RootResp.body = <<Line.key_aes_128, Line.comment_ref>>
    /\ Len(drm_fetched) = 1
    /\ drm_result = Verdict(FALSE, "AES-128")

\* No key tag in the root, nor in the variant when one was fetched.
NoKeyTagFetched ==
    /\ Fetched(RootResp)
    /\ ~HasLine(RootResp.body, KeyTagLines \cup SessionTagLines)
    /\ (Len(drm_fetched) = 2 /\ Fetched(VariantResp))
          => ~HasLine(VariantResp.body, KeyTagLines \cup SessionTagLines)

\* C25 as claimed: without a key tag in the root and in the fetched variant
\* the call returns (false, null).
C25_NoKeyTagIsUnknown ==
    (DrmDone /\ NoKeyTagFetched) => drm_result = Verdict(FALSE, "null")

\* C25: without a key tag and without a FairPlay or Widevine marker, in the
\* root and in the fetched variant, the call returns (false, null).
C25_NoKeyTagNoMarkerIsUnknown ==
    ( /\ DrmDone
      /\ NoKeyTagFetched
      /\ ~HasLine(RootResp.body, FairPlayLines \cup WidevineLines)
      /\ (Len(drm_fetched) = 2 /\ Fetched(VariantResp))
            => ~HasLine(VariantResp.body, FairPlayLines \cup WidevineLines) )
        => drm_result = Verdict(FALSE, "null")

\* C25 witness: the manifest had the word aes-128 in a segment path and no
\* key tag, and the call returned (false, null).
C25_Witness ==
    /\ DrmDone
    /\ RootResp.status = 200
    /\ RootResp.body = <<Line.aes_path, Line.segment>>
    /\ drm_result = Verdict(FALSE, "null")

VariantOfManifestUrl ==
    << "h", "t", "t", "p", ":", "/", "/", "a", "/", "v", ".", "m", "3", "u",
       "8" >>

\* C27: one call fetches the given manifest, then at most the sub-manifest
\* the root refers to, resolved against the manifest URL, and nothing more.
C27_AtMostOneHop ==
    /\ Len(drm_fetched) <= 2
    /\ Len(drm_fetched) >= 1 => drm_fetched[1].url = ManifestUrl
    /\ Len(drm_fetched) = 2
          => /\ HasLine(RootResp.body, {Line.variant_ref})
             /\ drm_fetched[2].url = VariantOfManifestUrl

\* C27 witness: the variant itself referred to a sub-manifest; the call
\* returned after two fetches.
C27_Witness ==
    /\ DrmDone
    /\ Len(drm_fetched) = 2
    /\ VariantResp.status = 200
    /\ HasLine(VariantResp.body, {Line.variant_ref})

\* C28 as claimed: a fetched variant with a session-level key tag and
\* SAMPLE-AES, with a FairPlay marker or with a Widevine marker gets the
\* verdict a root with that text gets.
C28_VariantInspectedAsRoot ==
    (DrmDone /\ Len(drm_fetched) = 2 /\ Fetched(VariantResp))
        => LET body == VariantResp.body
               session == /\ HasLine(body, SessionTagLines)
                          /\ HasLine(body, SampleAesLines)
           IN  /\ session => drm_result = Verdict(TRUE, "SAMPLE-AES(session)")
               /\ (~session /\ HasLine(body, FairPlayLines))
                     => drm_result = Verdict(TRUE, "FairPlay")
               /\ (~session /\ ~HasLine(body, FairPlayLines)
                            /\ HasLine(body, WidevineLines))
                     => drm_result = Verdict(TRUE, "Widevine")



\* main has ended (it returned, or sys.exit(1) was called).
CliDone == cli_pc = "done"

\* C29: main exits with code 0 on every normal completion, both when no URL
\* is valid (no download is attempted) and when the batch over at least
\* one valid URL runs to its end, and non-zero only after a top-level
\* failure: with a configuration that loads, no download is attempted and
\* the code is 0 when no URL is valid, and the batch is run when one is.
C29_NormalCompletionExitsZero ==
    CliDone /\ cli_config = "ok" =>
        IF cli_valid = <<>> THEN cli_exit = 0 /\ ~cli_ran ELSE cli_ran

\* What validate_urls is to return for the inputs us: in input order, the
\* stripped inputs whose scheme is http or https and whose host is not empty.
RECURSIVE StrippedValid(_)
StrippedValid(us) ==
    IF us = <<>> THEN <<>>
    ELSE LET u == Strip(Head(us))
         IN  (IF UrlScheme(u) \in HttpSchemes /\ UrlNetloc(u) # <<>>
              THEN <<u>> ELSE <<>>)
             \o StrippedValid(Tail(us))

\* C30: validate_urls returns, in input order, exactly the inputs whose
\* scheme is http or https and whose host is non-empty, each stripped of
\* surrounding whitespace; every other input is dropped.  (main has called
\* validate_urls on its positional inputs once it is past the "urls" step.)
C30_ValidUrlsAreStripped ==
    cli_pc \in {"download", "done"} /\ cli_config = "ok" /\ cli_inputs # <<>> =>
        cli_valid = StrippedValid(cli_inputs)


\* main has called read_links_file(config.links_file): there was no
\* positional input and the configuration loaded.
LinksFileRead ==
    cli_pc \in {"download", "done"} /\ cli_config = "ok" /\ cli_inputs = <<>>

\* C31: read_links_file called on a path that does not exist returns an
\* empty list and creates a template links file at that path, so the path
\* exists after the call: once the links file has been read it exists, and
\* when it has no URL line no URL was found.
C31_AbsentLinksFileIsCreated ==
    LinksFileRead =>
        /\ cli_links # NoText
        /\ (ReadLinksFile(cli_links) = <<>> => cli_valid = <<>>)

\* A download_video call for a URL with scheme and host is under way or has
\* just returned.
InValidCall == url # None /\ HasSchemeAndHost(url)

\* What the engines and the browser are seen to do in a call.
EngineEvents == {"ytdl", "probe", "download", "playwright", "browser_call", "browser_run"}

\* The host's total before the current call: the earlier URLs of the run that
\* got past directory creation.
TotalBefore(d) == tried[d] - uncounted[d]

\* C32 as claimed: every download_video call with a valid URL increments
\* domain_stats[host].total by exactly one.
C32_EveryValidCallCounts ==
    (Returned /\ HasSchemeAndHost(url))
        => StatsOf(domain_stats, UrlNetloc(url)).total = TotalBefore(UrlNetloc(url)) + 1

\* C32 amended: a call with a valid URL whose destination directory could be
\* created (or exists) increments the host's total by exactly one, after
\* the directory exists and before any engine is invoked, and the increment
\* stays to the end of the call whatever the outcome; a call whose directory
\* creation fails increments nothing; no other host's counters change.
C32_CountedOnceAfterMkdir ==
    InValidCall =>
        LET h == UrlNetloc(url)
        IN  /\ Occurs("count") <= 1
            /\ StatsOf(domain_stats, h).total = TotalBefore(h) + Occurs("count")
            /\ Occurs("count") = 1
                  => /\ h \in dirs
                     /\ FirstAt("mkdir") \in 1..(FirstAt("count") - 1)
            /\ \A e \in EngineEvents :
                  Occurs(e) > 0 => FirstAt("count") \in 1..(FirstAt(e) - 1)
            /\ Returned => Occurs("count") = Occurs("mkdir")
            /\ \A d \in Domains \ {h} :
                  StatsOf(domain_stats, d) =
                      [total |-> TotalBefore(d), success |-> saved[d]]

\* C32 witness: a counted call ended without a file, after an earlier call
\* for the other host.
C32_Witness ==
    /\ Returned
    /\ HasSchemeAndHost(url)
    /\ Occurs("count") = 1
    /\ ret = None
    /\ StatsOf(domain_stats, UrlNetloc(url)).total = 1
    /\ \E d \in Domains \ {UrlNetloc(url)} : StatsOf(domain_stats, d).total = 1

\* C33 as claimed: in every download_video call with a valid URL,
\* sweep_leftovers runs exactly once.
C33_EveryValidCallSweeps ==
    (Returned /\ HasSchemeAndHost(url)) => Occurs("sweep") = 1

\* C33 amended: in a call with a valid URL whose destination directory could
\* be created, sweep_leftovers runs exactly once, before the primary engine
\* is set up or probed and before any download starts, and it deletes
\* files of the URL's destination directory only; when directory
\* creation fails it does not run.
C33_SweepOnceBeforeEngines ==
    /\ [](InValidCall =>
            /\ Occurs("sweep") <= 1
            /\ Returned => Occurs("sweep") = Occurs("mkdir")
            /\ \A e \in EngineEvents :
                  Occurs(e) > 0 => FirstAt("sweep") \in 1..(FirstAt(e) - 1))
    /\ [][Occurs("sweep")' > Occurs("sweep")
            => /\ files' \subseteq files
               /\ \A f \in files \ files' : f[1] = UrlNetloc(url)]_vars

\* C33 witness: the sweep ran once in a call whose download step ran too,
\* in a directory that held a partial file from before.
C33_Witness ==
    /\ Returned
    /\ HasSchemeAndHost(url)
    /\ Occurs("sweep") = 1
    /\ Occurs("download") = 1
    /\ resumable # {}

\* C34: the fallback is not gated by DRM analysis: in no state of the
\* orchestrator has a detect_drm_in_m3u8 call (or the manifest capture that
\* would feed it) been started, fetched anything or returned a verdict, and
\* whenever the primary attempt returned None the call to the browser
\* engine was made by the time download_video returns.
C34_FallbackNotGatedByDrm ==
    /\ drm_pc = "off" /\ drm_fetched = <<>> /\ drm_result = NoVerdict
    /\ (Returned /\ PrimaryGaveNothing) => Occurs("browser_call") = 1

\* C34 witness: the primary download failed, the browser engine was called,
\* and no manifest was analysed.
C34_Witness ==
    /\ Returned
    /\ primary = "download_error"
    /\ browserWill = "download"
    /\ Occurs("browser_call") = 1
    /\ drm_pc = "off"

\* C35: on the fetched root manifest the checks apply in a fixed order: a
\* session-level key tag with SAMPLE-AES gives (true, "SAMPLE-AES(session)");
\* else a FairPlay marker gives (true, "FairPlay"); else a Widevine marker
\* gives (true, "Widevine"); in each of these cases the root was the only
\* manifest fetched, and a second fetch is made only for a root that matched
\* none of them and has a sub-manifest reference.
C35_RootChecksInOrder ==
    (DrmDone /\ Fetched(RootResp)) =>
        LET b       == RootResp.body
            session == HasLine(b, SessionTagLines) /\ HasLine(b, SampleAesLines)
            fair    == HasLine(b, FairPlayLines)
            wide    == HasLine(b, WidevineLines)
        IN  /\ session => drm_result = Verdict(TRUE, "SAMPLE-AES(session)")
            /\ (~session /\ fair) => drm_result = Verdict(TRUE, "FairPlay")
            /\ (~session /\ ~fair /\ wide) => drm_result = Verdict(TRUE, "Widevine")
            /\ (session \/ fair \/ wide) => Len(drm_fetched) = 1
            /\ Len(drm_fetched) = 2 => HasLine(b, {Line.variant_ref})

\* C35 witness: the root had a sub-manifest reference and a FairPlay word;
\* it was classified FairPlay and the sub-manifest was not fetched.
C35_Witness ==
    /\ DrmDone
    /\ RootResp.status = 200
    /\ RootResp.body = <<Line.variant_ref, Line.fairplay_path>>
    /\ Len(drm_fetched) = 1
    /\ drm_result = Verdict(TRUE, "FairPlay")

\* C36: in every state of the orchestrator, every host with an entry in
\* domain_stats has 0 <= success <= total and total >= 1.
C36_SuccessWithinTotal ==
    \A d \in DOMAIN domain_stats :
        /\ 0 <= domain_stats[d].success
        /\ domain_stats[d].success <= domain_stats[d].total
        /\ domain_stats[d].total >= 1

\* C36 witness: one host has as many successes as attempts, the other one
\* attempt and no success.
C36_Witness ==
    /\ DOMAIN domain_stats = Domains
    /\ domain_stats[DomA] = [total |-> 1, success |-> 1]
    /\ domain_stats[DomB] = [total |-> 1, success |-> 0]
    /\ pc = "done"

\* sweep_leftovers was the last call on the file manager: fm_before is the
\* directory it started from and files what it left.
Swept == fm_op = "sweep"

\* C37: the files sweep_leftovers leaves do not depend on the order in which
\* the directory's entries are enumerated: what the sweep left is what
\* every enumeration order leaves for the same initial content.
C37_SweepIsOrderIndependent ==
    Swept => SweepLeftovers(fm_before, dirs, DomA, locked) = {files}

\* C38: sweep_leftovers is idempotent: a sweep run on the directory as a
\* sweep has just left it, with nothing changed in between (the deletions
\* that failed fail again), deletes nothing.
C38_SecondSweepDeletesNothing ==
    [][(Swept /\ Swept') => files' = files]_vars

\* C38 witness: a sweep has deleted v.mp4.part and left its sidecar
\* v.mp4.part.ytdl next to v.mp4 and a partial file it could not delete:
\* the directory a second sweep starts from still holds artifacts.
C38_Witness ==
    /\ Swept
    /\ <<DomA, VMp4 \o PartMarker>> \in fm_before \ files
    /\ <<DomA, ChainName>> \in files
    /\ <<DomA, VMp4>> \in files
    /\ <<DomA, FragName>> \in files \cap locked

\* The event matches a manifest pattern: a request by its URL, a response
\* by its URL or its content type.
MatchesManifest(ev) ==
    IF ev.kind = "request"
    THEN HasAny(ev.url, Patterns.maybe_set)
    ELSE HasAny(ev.url, Patterns.response_url)
             \/ HasAny(ev.ctype, Patterns.content_type)

\* The position of the first matching event among those seen, 0 if none.
FirstMatch(seen) ==
    LET at == {i \in DOMAIN seen : MatchesManifest(seen[i])}
    IN  IF at = {} THEN 0 ELSE CHOOSE i \in at : \A j \in at : i <= j

\* C39: the result of capture_stream_manifest is fixed by the first observed
\* network event that matches a manifest pattern: the call returns that
\* event, whatever matching events follow it, and it returns no result on
\* timeout only when no observed event matched.
C39_FirstMatchingEventFixesResult ==
    /\ cap_pc = "returned" => CaptureResult = FirstMatch(cap_seen)
    /\ cap_pc = "timeout" => FirstMatch(cap_seen) = 0
=========================================================================
